---- MODULE Spec2Model ----
(***************************************************************************)
(* Model of the API resilience wrapper: RequestQueue (priority scheduler), *)
(* RateLimiter (sliding window), RetryManager (retry with backoff) and     *)
(* their composition in ApiWrapper.request.                                *)
(*                                                                         *)
(* Time is the value of Date.now() in milliseconds, advanced by Tick       *)
(* actions.  Promise continuations that run in the same microtask chain    *)
(* as the event that triggers them are part of that event's action.        *)
(***************************************************************************)
EXTENDS Integers, Sequences, FiniteSets, TLC

\* ------------------------------------------------------------------ bounds
MaxJobs == 4
RLMaxCalls == 4
RLMaxTime == 6
RetryMaxTime == 26
ApiMaxRequests == 2
ApiMaxTime == 4

\* --------------------------------------------------------------- constants
DefaultMaxConcurrent == 5

Priorities == {1, 5}
OptMaxConcurrent == {0, 1, 2}
SettleKinds == {"value", "Error", "AbortError"}

DefaultMaxRequests == 10
DefaultTimeWindow == 1000
OptMaxRequests == {1, 2}
OptTimeWindow == {2, 3}

DefaultMaxRetries == 3
DefaultInitialDelay == 1000
DefaultMaxDelay == 30000
DefaultBackoffMultiplier == 2
DefaultRetryableErrors == {408, 429, 500, 502, 503, 504}
OptMaxRetries == {0, 1, 2}
OptRetryableErrors == {DefaultRetryableErrors, {503}}

\* the errors an attempt may fail with: name, aborted flag, error.status and
\* error.response.status (0 where the field is absent)
ErrorKinds ==
  { [name |-> "Error", aborted |-> FALSE, status |-> 500, respStatus |-> 500],
    [name |-> "Error", aborted |-> FALSE, status |-> 404, respStatus |-> 404],
    [name |-> "Error", aborted |-> FALSE, status |-> 0, respStatus |-> 503],
    [name |-> "AbortError", aborted |-> TRUE, status |-> 500, respStatus |-> 0],
    [name |-> "TimeoutError", aborted |-> FALSE, status |-> 0, respStatus |-> 0] }

DefaultTimeout == 10000

\* what the operation (fetch) of an attempt may settle with: a response with
\* a status, or a rejection that carries no status
NetworkError ==
  [name |-> "TypeError", aborted |-> FALSE, status |-> 0, respStatus |-> 0]
AbortError ==
  [name |-> "AbortError", aborted |-> FALSE, status |-> 0, respStatus |-> 0]
\* the error response.json() rejects with for a body that is not JSON
SyntaxError ==
  [name |-> "SyntaxError", aborted |-> FALSE, status |-> 0, respStatus |-> 0]
\* a response carries its status and its body: JSON text, other text (an
\* empty body is read like it), or a body that has not arrived when fetch
\* fulfils (later)
FetchOutcomes ==
  { [kind |-> "response", status |-> 200, body |-> "json"],
    [kind |-> "response", status |-> 200, body |-> "text"],
    [kind |-> "response", status |-> 200, body |-> "later"],
    [kind |-> "response", status |-> 500, body |-> "json"],
    [kind |-> "rejection", error |-> NetworkError] }
\* how the body of a response that fetch handed over early ends: JSON text,
\* other text, or a failure of the connection
BodyOutcomes == {"json", "text", "failed"}

\* values a synchronous call returns to its caller
JsBoolean(b) == [type |-> "boolean", boolean |-> b]
JsNumber(n) == [type |-> "number", number |-> n]
JsUndefined == [type |-> "undefined"]

\* the latest step was no call of cancel, cancelAll, clearQueue, abort or
\* abortAll
NoReturn == [call |-> "none", arg |-> 0, value |-> JsUndefined]

\* the operation's own errors named like those of the controller
OwnAbortError ==
  [name |-> "AbortError", aborted |-> FALSE, status |-> 0, respStatus |-> 0]
OwnTimeoutError ==
  [name |-> "TimeoutError", aborted |-> FALSE, status |-> 0, respStatus |-> 0]

\* the error the timer of createTimeoutPromise rejects with
TimeoutPromiseError ==
  [name |-> "TimeoutError", aborted |-> FALSE, status |-> 0, respStatus |-> 0]

\* what the operation given to executeWithTimeout may settle with
OperationOutcomes ==
  { [kind |-> "value"],
    [kind |-> "rejection", error |-> NetworkError],
    [kind |-> "rejection", error |-> OwnAbortError],
    [kind |-> "rejection", error |-> OwnTimeoutError] }

\* a race, or a call, that has not settled
NoOutcome == [kind |-> "pending"]

\* the error cancel rejects a queued request with
RequestCancelled ==
  [name |-> "AbortError", message |-> "Request cancelled", aborted |-> FALSE,
   status |-> 0, respStatus |-> 0]

\* the error clearQueue rejects a waiting entry with
QueueCleared ==
  [name |-> "Error", message |-> "Queue cleared", aborted |-> FALSE,
   status |-> 0, respStatus |-> 0]

NoError == [name |-> "none"]
OkValue == [name |-> "ok"]
Pending == [name |-> "pending"]

VARIABLES
  maxConcurrent,   \* RequestQueue.maxConcurrent
  paused,          \* RequestQueue.paused
  requests,        \* every request object created by enqueue, by id
  queue,           \* RequestQueue.queue: ids of the request objects it holds
  running,         \* RequestQueue.running
  stats,           \* RequestQueue.stats
  pendingProcess,  \* pending setTimeout(() => this.process(), 0) callbacks
  dispatchLog,     \* ids in the order their fn was invoked (history)
  now,             \* Date.now()
  maxRequests,     \* RateLimiter.maxRequests
  timeWindow,      \* RateLimiter.timeWindow
  rlQueue,         \* RateLimiter.queue: the wait list
  activeRequests,  \* RateLimiter.activeRequests
  requestTimestamps, \* RateLimiter.requestTimestamps: the tickets
  throttled,       \* state of each throttle call, by id
  rlStarts,        \* every fn started by RateLimiter: id, time, waited (history)
  optMaxRetries,   \* options.maxRetries given to the RetryManager constructor
  maxRetries,      \* RetryManager.maxRetries
  initialDelay,    \* RetryManager.initialDelay
  maxDelay,        \* RetryManager.maxDelay
  backoffMultiplier, \* RetryManager.backoffMultiplier
  retryableErrors, \* RetryManager.retryableErrors
  retry,           \* each executeWithRetry call: position, attempt, lastError
  attemptLog,      \* per call, every invocation of fn (history)
  retryResult,     \* per call, every settlement of its promise (history)
  defaultTimeout,  \* TimeoutController.defaultTimeout
  guards,          \* every executeWithTimeout call: timers, signal, operation
  metrics,         \* ApiWrapper.metrics
  calls,           \* the promise of every ApiWrapper.request call, by call
  batches,         \* the promise of every all / allSettled / race / any call
  events,          \* EventEmitter.events: the callbacks of each event
  delivered,       \* every invocation of a callback by emit (history)
  returned         \* what the call made in the latest step returned

qvars == <<maxConcurrent, paused, requests, queue, running, stats, pendingProcess,
           dispatchLog>>

rlvars == <<maxRequests, timeWindow, rlQueue, activeRequests,
            requestTimestamps, throttled, rlStarts>>

rmvars == <<optMaxRetries, maxRetries, initialDelay, maxDelay,
            backoffMultiplier, retryableErrors, retry, attemptLog, retryResult>>

apivars == <<defaultTimeout, guards, metrics, calls, batches, events, delivered>>

vars == <<qvars, now, rlvars, rmvars, apivars, returned>>

\* ------------------------------------------------------------ RequestQueue

\* options.maxConcurrent || 5 : a falsy option (absent or 0) gives the default
QueueMaxConcurrent(opt) == IF opt = 0 THEN DefaultMaxConcurrent ELSE opt

\* Array.prototype.sort with the comparator (a, b) => b.priority - a.priority
\* is a stable sort by descending priority: x goes behind every element that
\* the comparator does not order after it
RECURSIVE InsertSorted(_, _)
InsertSorted(x, s) ==
  IF s = <<>> THEN <<x>>
  ELSE IF x.priority > Head(s).priority
       THEN <<x>> \o s
       ELSE <<Head(s)>> \o InsertSorted(x, Tail(s))

RECURSIVE SortFrom(_, _)
SortFrom(s, acc) ==
  IF s = <<>> THEN acc
  ELSE SortFrom(Tail(s), InsertSorted(Head(s), acc))

StableSortDesc(s) == SortFrom(s, <<>>)

\* a sort that places an element before the queued ones of equal priority
RECURSIVE InsertSortedUnstable(_, _)
InsertSortedUnstable(x, s) ==
  IF s = <<>> THEN <<x>>
  ELSE IF x.priority >= Head(s).priority
       THEN <<x>> \o s
       ELSE <<Head(s)>> \o InsertSortedUnstable(x, Tail(s))

RECURSIVE SortFromUnstable(_, _)
SortFromUnstable(s, acc) ==
  IF s = <<>> THEN acc
  ELSE SortFromUnstable(Tail(s), InsertSortedUnstable(Head(s), acc))

SortByPriorityUnstable(q) == SortFromUnstable(q, <<>>)

\* a variant that leaves the queue in arrival order
SortByPriorityNone(q) == q

\* this.queue.sort((a, b) => b.priority - a.priority) of RequestQueue.enqueue
SortByPriority(q) == StableSortDesc(q)

\* this.queue.findIndex(r => r.status === 'queued'), 0 when there is none
FindQueuedIndex(q, reqs) ==
  LET idxs == {i \in 1..Len(q) : reqs[q[i].id].status = "queued"}
  IN  IF idxs = {} THEN 0 ELSE CHOOSE i \in idxs : \A k \in idxs : i <= k

\* this.queue.splice(index, 1)
Splice(q, i) == SubSeq(q, 1, i - 1) \o SubSeq(q, i + 1, Len(q))

\* variants of the guard of process(): one job too many, one job too few
ProcessBlockedOffByOne(run, cap, q) == run > cap \/ Len(q) = 0

ProcessBlockedEarly(run, cap, q) == run >= cap - 1 \/ Len(q) = 0

\* a variant of the guard of process() that dispatches only when nothing runs
ProcessBlockedWhenBusy(run, cap, q) == run >= 1 \/ Len(q) = 0

\* this.running >= this.maxConcurrent || this.queue.length === 0
ProcessBlocked(run, cap, q) == run >= cap \/ Len(q) = 0

\* process() up to its await: the state after the dispatch decision and the
\* id of the request whose fn is invoked (0 when nothing is dispatched)
Process(q, run, reqs, cap) ==
  LET idx == FindQueuedIndex(q, reqs)
  IN  IF ProcessBlocked(run, cap, q) \/ idx = 0
      THEN [queue |-> q, running |-> run, requests |-> reqs, dispatched |-> 0]
      ELSE [queue |-> Splice(q, idx),
            running |-> run + 1,
            requests |-> [reqs EXCEPT ![q[idx].id].status = "running"],
            dispatched |-> q[idx].id]

LogDispatch(log, d) == IF d = 0 THEN log ELSE Append(log, d)

\* the state after enqueue(fn, {priority}): push, count, sort, process()
EnqueueResult(q, run, reqs, cap, p) ==
  LET id    == Len(reqs) + 1
      reqs1 == Append(reqs, [priority |-> p, status |-> "queued",
                             settled |-> "pending", outcome |-> Pending])
      q1    == SortByPriority(Append(q, [id |-> id, priority |-> p]))
  IN  Process(q1, run, reqs1, cap)

\* enqueue(fn, {priority})
Enqueue(p) ==
  /\ LET r == EnqueueResult(queue, running, requests, maxConcurrent, p)
     IN  /\ requests' = r.requests
         /\ queue' = r.queue
         /\ running' = r.running
         /\ stats' = [stats EXCEPT !.total = @ + 1]
         /\ dispatchLog' = LogDispatch(dispatchLog, r.dispatched)
  /\ UNCHANGED <<maxConcurrent, paused, pendingProcess>>

\* the callback of setTimeout(() => this.process(), 0)
ProcessTimer ==
  /\ pendingProcess > 0
  /\ LET r == Process(queue, running, requests, maxConcurrent)
     IN  /\ requests' = r.requests
         /\ queue' = r.queue
         /\ running' = r.running
         /\ dispatchLog' = LogDispatch(dispatchLog, r.dispatched)
  /\ pendingProcess' = pendingProcess - 1
  /\ UNCHANGED <<maxConcurrent, paused, stats>>

\* pause()
Pause ==
  /\ paused' = JsBoolean(TRUE)
  /\ UNCHANGED <<maxConcurrent, requests, queue, running, stats,
                 pendingProcess, dispatchLog>>

\* resume(): this.paused = false, this.process()
Resume ==
  /\ paused' = JsBoolean(FALSE)
  /\ LET r == Process(queue, running, requests, maxConcurrent)
     IN  /\ requests' = r.requests
         /\ queue' = r.queue
         /\ running' = r.running
         /\ dispatchLog' = LogDispatch(dispatchLog, r.dispatched)
  /\ UNCHANGED <<maxConcurrent, stats, pendingProcess>>

\* the counters of this.stats after the constructor or resetStats()
NoStats == [total |-> 0, completed |-> 0, failed |-> 0, cancelled |-> 0]

\* resetStats()
ResetStats ==
  /\ stats' = NoStats
  /\ UNCHANGED <<maxConcurrent, paused, requests, queue, running,
                 pendingProcess, dispatchLog>>

\* the statistics after request.fn settled with kind k
SettleStats(st, k) ==
  IF k = "value" THEN [st EXCEPT !.completed = @ + 1]
  ELSE IF k = "AbortError" THEN [st EXCEPT !.cancelled = @ + 1]
  ELSE [st EXCEPT !.failed = @ + 1]

\* a variant that marks a job whose fn failed with an AbortError cancelled
SettledStatusAbortCancelled(k) ==
  IF k = "value" THEN "completed"
  ELSE IF k = "AbortError" THEN "cancelled" ELSE "failed"

\* request.status after request.fn settled with kind k
SettledStatus(k) == IF k = "value" THEN "completed" ELSE "failed"

\* the value or error of kind k that request.fn settled with
OutcomeOfKind(k) ==
  IF k = "value" THEN OkValue
  ELSE [name |-> k, aborted |-> FALSE, status |-> 0, respStatus |-> 0]

\* process() after its await: request.fn of job id settled with kind k
Settle(id, k) ==
  /\ id \in 1..Len(requests)
  /\ requests[id].status = "running"
  /\ requests' = [requests EXCEPT ![id].status = SettledStatus(k),
                                  ![id].settled = k,
                                  ![id].outcome = OutcomeOfKind(k)]
  /\ stats' = SettleStats(stats, k)
  /\ running' = running - 1
  /\ pendingProcess' = pendingProcess + 1
  /\ UNCHANGED <<maxConcurrent, paused, queue, dispatchLog>>

\* a variant of the test in cancel that also accepts a job no longer queued
CancelAcceptsAny(q, reqs, id) == id \in 1..Len(reqs)

\* request && request.status === 'queued', for the request found in the queue
CancelAccepts(q, reqs, id) ==
  \E i \in 1..Len(q) : q[i].id = id /\ reqs[id].status = "queued"

\* a variant of the splice in cancel that leaves the queue as it is
CancelSpliceNone(q, id) == q

\* this.queue.splice(this.queue.indexOf(request), 1); for a request that is
\* not in the queue indexOf gives -1, and splice(-1, 1) removes the last entry
CancelSplice(q, id) ==
  LET found == {i \in 1..Len(q) : q[i].id = id}
  IN  IF found # {}
      THEN Splice(q, CHOOSE i \in found : \A j \in found : i <= j)
      ELSE IF q = <<>> THEN q ELSE Splice(q, Len(q))

\* the state after cancel(requestId), and what it returns
CancelResult(q, reqs, st, id) ==
  IF CancelAccepts(q, reqs, id)
  THEN [queue |-> CancelSplice(q, id),
        requests |-> [reqs EXCEPT ![id].status = "cancelled",
                                  ![id].settled = "AbortError",
                                  ![id].outcome = RequestCancelled],
        stats |-> [st EXCEPT !.cancelled = @ + 1],
        ret |-> TRUE]
  ELSE [queue |-> q, requests |-> reqs, stats |-> st, ret |-> FALSE]

\* cancel(requestId)
Cancel(id) ==
  /\ LET r == CancelResult(queue, requests, stats, id)
     IN  /\ queue' = r.queue
         /\ requests' = r.requests
         /\ stats' = r.stats
         /\ returned' = [call |-> "cancel", arg |-> id,
                         value |-> JsBoolean(r.ret)]
  /\ UNCHANGED <<maxConcurrent, paused, running, pendingProcess, dispatchLog>>

RECURSIVE CancelEach(_, _, _, _)
CancelEach(ids, q, reqs, st) ==
  IF ids = <<>> THEN [queue |-> q, requests |-> reqs, stats |-> st]
  ELSE LET r == CancelResult(q, reqs, st, Head(ids))
       IN  CancelEach(Tail(ids), r.queue, r.requests, r.stats)

\* a variant of the filter in cancelAll that misses the first queued request
QueuedIdsButFirst(q, reqs) ==
  LET queued == SelectSeq(q, LAMBDA e : reqs[e.id].status = "queued")
  IN  [i \in 1..Len(queued) - 1 |-> queued[i + 1].id]

\* this.queue.filter(r => r.status === 'queued'), as ids
QueuedIds(q, reqs) ==
  LET queued == SelectSeq(q, LAMBDA e : reqs[e.id].status = "queued")
  IN  [i \in 1..Len(queued) |-> queued[i].id]

\* cancelAll(): cancel(id) for every request queued at call time
CancelAll ==
  /\ LET ids == QueuedIds(queue, requests)
         r   == CancelEach(ids, queue, requests, stats)
     IN  /\ queue' = r.queue
         /\ requests' = r.requests
         /\ stats' = r.stats
         /\ returned' = [call |-> "cancelAll", arg |-> 0,
                         value |-> JsNumber(Len(ids))]
  /\ UNCHANGED <<maxConcurrent, paused, running, pendingProcess, dispatchLog>>

\* ------------------------------------------------------------- RateLimiter

\* options.maxRequests || 10 and options.timeWindow || 1000
RLMaxRequests(opt) == IF opt = 0 THEN DefaultMaxRequests ELSE opt
RLTimeWindow(opt) == IF opt = 0 THEN DefaultTimeWindow ELSE opt

\* a variant that drops a ticket one millisecond before the window has passed
CleanOldTimestampsEarly(ts, t, w) == SelectSeq(ts, LAMBDA x : x > t - w + 1)

\* cleanOldTimestamps(): keep the tickets with timestamp > now - timeWindow
CleanOldTimestamps(ts, t, w) == SelectSeq(ts, LAMBDA x : x > t - w)

\* the comparison of canMakeRequest(), on the cleaned tickets
HasCapacity(ts, max) == Len(ts) < max

\* this.queue.sort((a, b) => b.priority - a.priority) of RateLimiter.throttle
RLSortByPriority(q) == StableSortDesc(q)

\* recordRequest()
RecordRequest(rl, t) ==
  [rl EXCEPT !.requestTimestamps = Append(@, t), !.activeRequests = @ + 1]

\* throttle(fn, priority) up to its await, for the call id: the state of the
\* limiter afterwards and the id whose fn is started (0 when the call waits)
Throttle(rl, id, p, t, w, max) ==
  LET cleaned == [rl EXCEPT !.requestTimestamps = CleanOldTimestamps(@, t, w)]
  IN  IF HasCapacity(cleaned.requestTimestamps, max)
      THEN [rl |-> RecordRequest(cleaned, t), started |-> id]
      ELSE [rl |-> [cleaned EXCEPT !.queue =
                      RLSortByPriority(Append(@, [id |-> id, priority |-> p,
                                                  timestamp |-> t]))],
            started |-> 0]

\* processQueue() up to its await
ProcessQueue(rl, t, w, max) ==
  IF Len(rl.queue) = 0 THEN [rl |-> rl, started |-> 0]
  ELSE LET cleaned ==
             [rl EXCEPT !.requestTimestamps = CleanOldTimestamps(@, t, w)]
       IN  IF ~HasCapacity(cleaned.requestTimestamps, max)
           THEN [rl |-> cleaned, started |-> 0]
           ELSE [rl |-> RecordRequest([cleaned EXCEPT !.queue = Tail(@)], t),
                 started |-> Head(rl.queue).id]

\* completeRequest()
CompleteRequest(rl, t, w, max) ==
  ProcessQueue([rl EXCEPT !.activeRequests = @ - 1], t, w, max)

RLState ==
  [queue |-> rlQueue, activeRequests |-> activeRequests,
   requestTimestamps |-> requestTimestamps]

\* the log of the fns started by the limiter; waited tells that processQueue
\* started the fn of an entry of the wait list, whose call of throttle
\* returned the promise of that entry
LogStart(log, id, t, waited) ==
  IF id = 0 THEN log
  ELSE Append(log, [id |-> id, time |-> t, waited |-> waited])

MarkStarted(th, id) == IF id = 0 THEN th ELSE [th EXCEPT ![id] = "active"]

\* a call of throttle(fn, p); the calls are numbered in call order
RLThrottle(p) ==
  /\ \E id \in DOMAIN throttled :
       /\ throttled[id] = "none"
       /\ \A k \in DOMAIN throttled : k < id => throttled[k] # "none"
       /\ LET r == Throttle(RLState, id, p, now, timeWindow, maxRequests)
          IN  /\ rlQueue' = r.rl.queue
              /\ activeRequests' = r.rl.activeRequests
              /\ requestTimestamps' = r.rl.requestTimestamps
              /\ throttled' = IF r.started = id
                              THEN [throttled EXCEPT ![id] = "active"]
                              ELSE [throttled EXCEPT ![id] = "waiting"]
              /\ rlStarts' = LogStart(rlStarts, r.started, now, FALSE)
  /\ UNCHANGED <<maxRequests, timeWindow>>

\* the fn of the admitted call id settles with kind k: the promise of the
\* call settles alike and completeRequest() runs
RLComplete(id, k) ==
  /\ id \in DOMAIN throttled
  /\ throttled[id] = "active"
  /\ LET r == CompleteRequest(RLState, now, timeWindow, maxRequests)
     IN  /\ rlQueue' = r.rl.queue
         /\ activeRequests' = r.rl.activeRequests
         /\ requestTimestamps' = r.rl.requestTimestamps
         /\ throttled' = MarkStarted(
              [throttled EXCEPT ![id] =
                 IF k = "value" THEN "resolved" ELSE "rejected"], r.started)
         /\ rlStarts' = LogStart(rlStarts, r.started, now, TRUE)
  /\ UNCHANGED <<maxRequests, timeWindow>>

\* a variant of clearQueue that rejects the entries but keeps the first one
\* in the wait list
ClearQueueResultKeepsHead(q, th) ==
  [queue |-> IF q = <<>> THEN q ELSE <<Head(q)>>,
   throttled |-> [id \in DOMAIN th |->
                    IF \E i \in 1..Len(q) : q[i].id = id
                    THEN "cleared" ELSE th[id]],
   ret |-> Len(q)]

\* the wait list and the calls after clearQueue(), and what it returns: every
\* waiting entry is rejected with Error('Queue cleared')
ClearQueueResult(q, th) ==
  [queue |-> <<>>,
   throttled |-> [id \in DOMAIN th |->
                    IF \E i \in 1..Len(q) : q[i].id = id
                    THEN "cleared" ELSE th[id]],
   ret |-> Len(q)]

\* clearQueue()
ClearQueue ==
  /\ LET r == ClearQueueResult(rlQueue, throttled)
     IN  /\ throttled' = r.throttled
         /\ rlQueue' = r.queue
         /\ returned' = [call |-> "clearQueue", arg |-> 0,
                         value |-> JsNumber(r.ret)]
  /\ UNCHANGED <<maxRequests, timeWindow, activeRequests, requestTimestamps,
                 rlStarts>>

\* what a call returns that returns an object, field by field
JsObject(fields) == [type |-> "object", fields |-> fields]

\* Math.max(0, n)
AtLeastZero(n) == IF n < 0 THEN 0 ELSE n

\* getWaitTime(): 0 when no ticket is recorded; else cleanOldTimestamps(),
\* then 0 when the window has room, else the time until the oldest ticket
\* leaves the window
GetWaitTime(rl, t, w, max) ==
  LET cleaned == [rl EXCEPT !.requestTimestamps = CleanOldTimestamps(@, t, w)]
  IN  IF Len(rl.requestTimestamps) = 0 THEN [rl |-> rl, ret |-> 0]
      ELSE IF Len(cleaned.requestTimestamps) < max
           THEN [rl |-> cleaned, ret |-> 0]
           ELSE [rl |-> cleaned,
                 ret |-> AtLeastZero(Head(cleaned.requestTimestamps) + w - t)]

\* getStats(): cleanOldTimestamps(), then the statistics of the limiter
GetStats(rl, t, w, max) ==
  LET cleaned == [rl EXCEPT !.requestTimestamps = CleanOldTimestamps(@, t, w)]
      n       == Len(cleaned.requestTimestamps)
      wait    == GetWaitTime(cleaned, t, w, max)
  IN  [rl |-> wait.rl,
       ret |-> [activeRequests |-> cleaned.activeRequests,
                queuedRequests |-> Len(cleaned.queue),
                requestsInWindow |-> n,
                availableSlots |-> AtLeastZero(max - n),
                nextAvailableIn |-> wait.ret]]

\* a call of getWaitTime()
RLGetWaitTime ==
  /\ LET r == GetWaitTime(RLState, now, timeWindow, maxRequests)
     IN  /\ requestTimestamps' = r.rl.requestTimestamps
         /\ returned' = [call |-> "getWaitTime", arg |-> 0,
                         value |-> JsNumber(r.ret)]
  /\ UNCHANGED <<maxRequests, timeWindow, rlQueue, activeRequests, throttled,
                 rlStarts>>

\* a call of getStats()
RLGetStats ==
  /\ LET r == GetStats(RLState, now, timeWindow, maxRequests)
     IN  /\ requestTimestamps' = r.rl.requestTimestamps
         /\ returned' = [call |-> "getStats", arg |-> 0,
                         value |-> JsObject(r.ret)]
  /\ UNCHANGED <<maxRequests, timeWindow, rlQueue, activeRequests, throttled,
                 rlStarts>>

RLInit(optsMax, optsWindow, n) ==
  /\ maxRequests \in {RLMaxRequests(o) : o \in optsMax}
  /\ timeWindow \in {RLTimeWindow(o) : o \in optsWindow}
  /\ rlQueue = <<>>
  /\ activeRequests = 0
  /\ requestTimestamps = <<>>
  /\ throttled = [id \in 1..n |-> "none"]
  /\ rlStarts = <<>>

\* the limiter of a queue that is modelled on its own: never called
RLIdle ==
  /\ maxRequests = DefaultMaxRequests
  /\ timeWindow = DefaultTimeWindow
  /\ rlQueue = <<>>
  /\ activeRequests = 0
  /\ requestTimestamps = <<>>
  /\ throttled = <<>>
  /\ rlStarts = <<>>

\* ------------------------------------------------------------ RetryManager

\* options.maxRetries || 3 : a falsy option (absent or 0) gives the default
RMMaxRetries(opt) == IF opt = 0 THEN DefaultMaxRetries ELSE opt

RECURSIVE Pow(_, _)
Pow(b, n) == IF n = 0 THEN 1 ELSE b * Pow(b, n - 1)

\* this.initialDelay * Math.pow(this.backoffMultiplier, attemptNumber)
ExponentialDelay(init, mult, attempt) == init * Pow(mult, attempt)

\* whole milliseconds of Math.random() * 0.3 * exponentialDelay, a value of
\* the interval [0, 0.3 * exponentialDelay)
JitterValues(exp) == 0..((3 * exp - 1) \div 10)

Min(a, b) == IF a <= b THEN a ELSE b

\* a variant that adds the jitter after the cap
CalculateDelayCapFirst(init, mult, maxD, attempt, jitter) ==
  Min(ExponentialDelay(init, mult, attempt), maxD) + jitter

\* calculateDelay(attemptNumber), for the jitter drawn
CalculateDelay(init, mult, maxD, attempt, jitter) ==
  Min(ExponentialDelay(init, mult, attempt) + jitter, maxD)

\* error.status || error.response?.status
ErrorStatus(e) == IF e.status # 0 THEN e.status ELSE e.respStatus

\* a variant that retries cancelled attempts too
IsRetryableIgnoringAbort(e, retryable) == ErrorStatus(e) \in retryable

\* isRetryable(error)
IsRetryable(e, retryable) ==
  IF e.aborted THEN FALSE ELSE ErrorStatus(e) \in retryable

\* a variant that rethrows the error remembered from an earlier attempt
ThrownErrorStale(last, e) == IF last = NoError THEN e ELSE last

\* throw error, in the catch block of executeWithRetry
ThrownError(last, e) == e

\* a variant of the loop condition that allows one more attempt
LoopContinuesOneMore(attempt, maxR) == attempt <= maxR + 1

\* attempt <= this.maxRetries, the condition of the for loop
LoopContinues(attempt, maxR) == attempt <= maxR

\* a variant of the test for the last attempt that stops one attempt early
IsLastAttemptEarly(attempt, maxR) == attempt + 1 >= maxR

\* attempt === this.maxRetries
IsLastAttempt(attempt, maxR) == attempt = maxR

NewInvocation(attempt) == [index |-> attempt, outcome |-> Pending]

\* the entry of the for loop with the given attempt number: fn(attempt) is
\* invoked, or the loop is over and lastError is thrown
LoopEntry(r, log, res, attempt, maxR, t) ==
  IF LoopContinues(attempt, maxR)
  THEN [retry |-> [r EXCEPT !.pc = "attempt", !.attempt = attempt],
        log |-> Append(log, NewInvocation(attempt)),
        result |-> res]
  ELSE [retry |-> [r EXCEPT !.pc = "rejected", !.attempt = attempt],
        log |-> log,
        result |-> Append(res, r.lastError)]

SetOutcome(log, o) == [log EXCEPT ![Len(log)].outcome = o]

\* executeWithRetry after await fn(attempt) returned a value
AttemptSucceeded(r, log, res) ==
  [retry |-> [r EXCEPT !.pc = "resolved"],
   log |-> SetOutcome(log, OkValue),
   result |-> Append(res, OkValue)]

\* executeWithRetry after await fn(attempt) threw e: the catch block
AttemptFailed(r, log, res, e, maxR, retryable, delay, t) ==
  IF ~IsRetryable(e, retryable) \/ IsLastAttempt(r.attempt, maxR)
  THEN [retry |-> [r EXCEPT !.pc = "rejected", !.lastError = e],
        log |-> SetOutcome(log, e),
        result |-> Append(res, ThrownError(r.lastError, e))]
  ELSE [retry |-> [r EXCEPT !.pc = "sleep", !.lastError = e,
                            !.wake = t + delay],
        log |-> SetOutcome(log, e),
        result |-> res]

IdleCall == [pc |-> "idle", attempt |-> 0, wake |-> 0, lastError |-> NoError]

\* a call of executeWithRetry(fn)
ExecuteWithRetry(id) ==
  /\ retry[id].pc = "idle"
  /\ LET r == LoopEntry(retry[id], attemptLog[id], retryResult[id], 0,
                        maxRetries, now)
     IN  /\ retry' = [retry EXCEPT ![id] = r.retry]
         /\ attemptLog' = [attemptLog EXCEPT ![id] = r.log]
         /\ retryResult' = [retryResult EXCEPT ![id] = r.result]
  /\ UNCHANGED <<optMaxRetries, maxRetries, initialDelay, maxDelay,
                 backoffMultiplier, retryableErrors>>

\* fn(attempt) returns a value
AttemptReturns(id) ==
  /\ retry[id].pc = "attempt"
  /\ LET r == AttemptSucceeded(retry[id], attemptLog[id], retryResult[id])
     IN  /\ retry' = [retry EXCEPT ![id] = r.retry]
         /\ attemptLog' = [attemptLog EXCEPT ![id] = r.log]
         /\ retryResult' = [retryResult EXCEPT ![id] = r.result]
  /\ UNCHANGED <<optMaxRetries, maxRetries, initialDelay, maxDelay,
                 backoffMultiplier, retryableErrors>>

\* the error object of kind k thrown by the attempt with the given number
ErrorOf(k, attempt) ==
  [name |-> k.name, aborted |-> k.aborted, status |-> k.status,
   respStatus |-> k.respStatus, attempt |-> attempt]

\* fn(attempt) throws an error of kind k
AttemptThrows(id, k) ==
  /\ retry[id].pc = "attempt"
  /\ \E jitter \in JitterValues(ExponentialDelay(initialDelay,
                                  backoffMultiplier, retry[id].attempt)) :
       LET delay == CalculateDelay(initialDelay, backoffMultiplier, maxDelay,
                                   retry[id].attempt, jitter)
           r == AttemptFailed(retry[id], attemptLog[id], retryResult[id],
                              ErrorOf(k, retry[id].attempt), maxRetries,
                              retryableErrors, delay, now)
       IN  /\ retry' = [retry EXCEPT ![id] = r.retry]
           /\ attemptLog' = [attemptLog EXCEPT ![id] = r.log]
           /\ retryResult' = [retryResult EXCEPT ![id] = r.result]
  /\ UNCHANGED <<optMaxRetries, maxRetries, initialDelay, maxDelay,
                 backoffMultiplier, retryableErrors>>

\* the timer of sleep(delay) fires: the next iteration of the loop
SleepDone(id) ==
  /\ retry[id].pc = "sleep"
  /\ now >= retry[id].wake
  /\ LET r == LoopEntry(retry[id], attemptLog[id], retryResult[id],
                        retry[id].attempt + 1, maxRetries, now)
     IN  /\ retry' = [retry EXCEPT ![id] = r.retry]
         /\ attemptLog' = [attemptLog EXCEPT ![id] = r.log]
         /\ retryResult' = [retryResult EXCEPT ![id] = r.result]
  /\ UNCHANGED <<optMaxRetries, maxRetries, initialDelay, maxDelay,
                 backoffMultiplier, retryableErrors>>

\* a timer of sleep() is due
SleepDue == \E id \in DOMAIN retry : retry[id].pc = "sleep" /\ now >= retry[id].wake

RMInit(optsRetries, optsRetryable, n, init, maxD) ==
  /\ optMaxRetries \in optsRetries
  /\ maxRetries = RMMaxRetries(optMaxRetries)
  /\ initialDelay = init
  /\ maxDelay = maxD
  /\ backoffMultiplier = DefaultBackoffMultiplier
  /\ retryableErrors \in optsRetryable
  /\ retry = [id \in 1..n |-> IdleCall]
  /\ attemptLog = [id \in 1..n |-> <<>>]
  /\ retryResult = [id \in 1..n |-> <<>>]

\* the retry manager of a component that is modelled on its own: never called
RMIdle ==
  /\ optMaxRetries = 0
  /\ maxRetries = DefaultMaxRetries
  /\ initialDelay = DefaultInitialDelay
  /\ maxDelay = DefaultMaxDelay
  /\ backoffMultiplier = DefaultBackoffMultiplier
  /\ retryableErrors = DefaultRetryableErrors
  /\ retry = <<>>
  /\ attemptLog = <<>>
  /\ retryResult = <<>>

QInit(opts) ==
  /\ maxConcurrent \in {QueueMaxConcurrent(o) : o \in opts}
  /\ paused = JsUndefined
  /\ requests = <<>>
  /\ queue = <<>>
  /\ running = 0
  /\ stats = NoStats
  /\ pendingProcess = 0
  /\ dispatchLog = <<>>

\* ------------------------------------------------------------ EventEmitter

\* the events ApiWrapper emits
Events ==
  {"request:start", "request:attempt", "request:success", "request:error",
   "metrics:update", "batch:start", "batch:success", "batch:error",
   "batch:complete", "cancelAll", "metrics:reset"}

\* this.events = new Map(): no event has a callback
NoListeners == [e \in Events |-> <<>>]

\* the error a throwing callback throws
ObserverError ==
  [name |-> "Error", message |-> "observer", aborted |-> FALSE,
   status |-> 0, respStatus |-> 0]

\* a callback registered by on(event, callback), and the wrapper that
\* once(event, callback) registers in its place; id names the callback
Listener(id, throws) == [id |-> id, throws |-> throws, once |-> FALSE]
OnceWrapper(id, throws) == [id |-> id, throws |-> throws, once |-> TRUE]

\* on(event, callback): the callback is appended to the list of the event
On(event, callback) ==
  events' = [events EXCEPT ![event] = Append(@, callback)]

\* once(event, callback): on(event, wrapper)
Once(event, wrapper) == On(event, wrapper)

\* callbacks.indexOf(callback), 0 when the callback is not in the list
IndexOf(cbs, cb) ==
  IF \E i \in 1..Len(cbs) : cbs[i] = cb
  THEN CHOOSE i \in 1..Len(cbs) :
         cbs[i] = cb /\ \A j \in 1..(i - 1) : cbs[j] # cb
  ELSE 0

\* the callbacks of the event after off(event, callback): the first entry
\* that is the callback is removed; an event left without callbacks is
\* deleted from the map
OffResult(cbs, cb) ==
  IF IndexOf(cbs, cb) = 0 THEN cbs ELSE Splice(cbs, IndexOf(cbs, cb))

\* off(event, callback); the function that on() and once() return calls it
\* with the callback, or the wrapper, they registered
Off(event, cb) ==
  events' = [events EXCEPT ![event] = OffResult(@, cb)]

\* removeAllListeners(event): the event is deleted from the map
RemoveListenersOf(event) == events' = [events EXCEPT ![event] = <<>>]

\* removeAllListeners(): the map is cleared
RemoveAllListeners == events' = NoListeners

\* the invocation of the callback cb for the event
Invocation(event, cb) == [event |-> event, callback |-> cb.id]

\* callbacks.forEach(...) of emit from the index i on: the callback at i is
\* invoked inside try/catch (guarded) and the index moves on by one.  The
\* wrapper of once calls off(event, wrapper) after its callback returned,
\* which splices the very array forEach walks: the entry after it moves to
\* the index i and is not visited.  A wrapper whose callback throws does not
\* reach off and stays registered.
RECURSIVE ForEachCallback(_, _, _, _, _)
ForEachCallback(cbs, i, event, invoked, guarded) ==
  IF i > Len(cbs)
  THEN [callbacks |-> cbs, invoked |-> invoked, threw |-> FALSE]
  ELSE LET cb   == cbs[i]
           inv  == Append(invoked, Invocation(event, cb))
           rest == IF cb.once /\ ~cb.throws THEN Splice(cbs, i) ELSE cbs
       IN  IF cb.throws /\ ~guarded
           THEN [callbacks |-> cbs, invoked |-> inv, threw |-> TRUE]
           ELSE ForEachCallback(rest, i + 1, event, inv, guarded)

\* a variant that lets the exception of a callback escape: the callbacks
\* after it are not invoked and emit throws
EmitUnguarded(ev, event) ==
  LET r == ForEachCallback(ev[event], 1, event, <<>>, FALSE)
  IN  [invoked |-> r.invoked, threw |-> r.threw,
       events |-> [ev EXCEPT ![event] = r.callbacks]]

\* emit(event, data): the callbacks of the event are invoked as forEach
\* reaches them, the exception of a callback is caught and logged
Emit(ev, event) ==
  LET r == ForEachCallback(ev[event], 1, event, <<>>, TRUE)
  IN  [invoked |-> r.invoked, threw |-> r.threw,
       events |-> [ev EXCEPT ![event] = r.callbacks]]

\* the element of a set of one element
Only(S) == CHOOSE x \in S : TRUE

\* this.emit(event, ...) in the pipeline state P
EmitIn(P, event) ==
  Only({Only({[state |-> [Q EXCEPT !.delivered = @ \o e.invoked,
                                   !.events = e.events],
               threw |-> e.threw] :
                e \in {Emit(Q.events, event)}}) :
          Q \in {P}})

\* emit(event, data) called on the wrapper from outside
EmitEvent(event) ==
  LET e == Emit(events, event)
  IN  /\ delivered' = delivered \o e.invoked
      /\ events' = e.events

\* ------------------------------------------- TimeoutController, ApiWrapper

\* the state of the whole pipeline, as one value; jobs is the microtask
\* queue, which is empty whenever a timer or a caller runs
PState ==
  [requests |-> requests, queue |-> queue, running |-> running,
   stats |-> stats, pendingProcess |-> pendingProcess,
   dispatchLog |-> dispatchLog, rl |-> RLState, throttled |-> throttled,
   rlStarts |-> rlStarts, retry |-> retry, attemptLog |-> attemptLog,
   retryResult |-> retryResult, guards |-> guards, metrics |-> metrics,
   calls |-> calls, batches |-> batches, events |-> events,
   delivered |-> delivered, jobs |-> <<>>]

\* executeWithTimeout(fetchPromise, timeout) up to its await:
\* createWithTimeout arms the timer that aborts the controller and registers
\* the controller in activeRequests, fetchPromise(signal) starts the
\* operation, createTimeoutPromise arms the timer that rejects the race;
\* fetched is what executeFetch(attempt) settles with
NewGuard(id, attempt, t, timeout) ==
  [req |-> id, attempt |-> attempt, due |-> t + timeout,
   timer |-> TRUE, raceTimer |-> TRUE, active |-> TRUE, aborted |-> FALSE,
   op |-> "running", race |-> "pending", timeout |-> timeout,
   manual |-> FALSE, settledWith |-> NoOutcome, result |-> NoOutcome,
   reading |-> FALSE, fetched |-> Pending]

\* cleanup(requestId)
Cleanup(g) ==
  IF g.active THEN [g EXCEPT !.timer = FALSE, !.active = FALSE] ELSE g

\* the TimeoutError built in the catch block of executeWithTimeout
TimeoutErrorOf(timeout) ==
  [name |-> "TimeoutError", aborted |-> FALSE, status |-> 0, respStatus |-> 0,
   timeout |-> timeout]

\* a variant of the catch block that rethrows every rejection as it is
RaceRejectionUnchanged(e, timeout) == e

\* the catch block of executeWithTimeout: what is thrown for the rejection e
RaceRejection(e, timeout) ==
  IF e.name = "AbortError" \/ e.name = "TimeoutError"
  THEN TimeoutErrorOf(timeout)
  ELSE e

\* what executeWithTimeout settles with when its race settled with out: the
\* value, or the error thrown by the catch block
ExecuteWithTimeoutResult(out, timeout) ==
  IF out.kind = "rejection"
  THEN [kind |-> "rejection", error |-> RaceRejection(out.error, timeout)]
  ELSE out

\* executeWithTimeout after its await: the race of guard g settled with out,
\* cleanup(id) runs and the call settles
SettleRace(g, out) ==
  Cleanup([g EXCEPT !.race = "settled", !.settledWith = out,
                    !.result = ExecuteWithTimeoutResult(out, g.timeout)])

\* the error executeFetch throws for a response that is not ok
HttpError(status) ==
  [name |-> "Error", aborted |-> FALSE, status |-> status,
   respStatus |-> status]

\* response.ok
ResponseOk(status) == status >= 200 /\ status <= 299

\* await response.json(): the parsed body, the SyntaxError of JSON.parse for
\* a body that is empty or not JSON, the error of a connection that failed
\* while the body was read; pending while the body has not arrived
ResponseJson(body) ==
  CASE body = "json" -> OkValue
    [] body = "later" -> Pending
    [] body = "failed" -> NetworkError
    [] OTHER -> SyntaxError

\* the outcome of executeFetch(attempt) when the race settles with out: the
\* error of a response that is not ok, else what response.json() settles with
ExecuteFetchOutcome(out, timeout) ==
  IF out.kind = "response"
  THEN IF ResponseOk(out.status) THEN ResponseJson(out.body)
       ELSE HttpError(out.status)
  ELSE RaceRejection(out.error, timeout)

\* the call of request() that enqueued the job id
CallOf(cs, id) == CHOOSE c \in 1..Len(cs) : cs[c].job = id

\* the options of request(url, options) that the pipeline reads: priority,
\* timeout (0 stands for null, the default) and retry
RequestOptions(p, ms, retried) ==
  [priority |-> p, timeout |-> ms, retry |-> retried]

\* the options of the call of request() that enqueued the job id
OptionsOf(P, id) == P.calls[CallOf(P.calls, id)].options

\* timeout || this.timeoutController.defaultTimeout
TimeoutOf(timeout) == IF timeout = 0 THEN defaultTimeout ELSE timeout

\* a continuation of an async function: it runs after hops further turns of
\* the microtask queue; kind names the function that continues, id its job,
\* guard, call or batch, o what the awaited promise settled with
Job(kind, hops, id, o, jitter) ==
  [kind |-> kind, hops |-> hops, id |-> id, o |-> o, jitter |-> jitter]

\* the continuation is appended to the microtask queue
Then(P, kind, hops, id, o, jitter) ==
  [P EXCEPT !.jobs = Append(@, Job(kind, hops, id, o, jitter))]

\* the promise of executeFetch(attempt) settles with o for the job id, hops
\* turns from now: executeWithRetry continues after await fn(attempt); without
\* retry the fn given to throttle does, and throttle() or processQueue()
\* continues one turn after it
AttemptSettled(P, id, o, jitter, hops) ==
  IF OptionsOf(P, id).retry
  THEN Then(P, "executeWithRetry", hops, id, o, jitter)
  ELSE Then(P, "throttle", hops + 1, id, o, 0)

\* executeFetch(attempt) up to its await, for the request id: it emits
\* request:attempt and calls executeWithTimeout; an exception of emit would
\* reject the attempt
StartAttempt(P, id, t) ==
  Only({LET e == EmitIn(Q, "request:attempt")
        IN  IF e.threw THEN AttemptSettled(e.state, id, ObserverError, 0, 0)
            ELSE [e.state EXCEPT !.guards =
                    Append(@, NewGuard(id, Q.retry[id].attempt, t,
                                       TimeoutOf(OptionsOf(Q, id).timeout)))] :
          Q \in {P}})

\* this.retryManager.executeWithRetry(executeFetch) up to its first await:
\* executeFetch(0) is invoked; with a negative maxRetries the loop body
\* never runs and lastError, which is undefined, is thrown: the fn given to
\* throttle continues one turn later, throttle() or processQueue() two
StartRetry(P, id, t) ==
  Only({LET r  == LoopEntry(Q.retry[id], Q.attemptLog[id],
                            Q.retryResult[id], 0, maxRetries, t)
            P1 == [Q EXCEPT !.retry[id] = r.retry, !.attemptLog[id] = r.log,
                            !.retryResult[id] = r.result]
        IN  IF r.retry.pc = "attempt" THEN StartAttempt(P1, id, t)
            ELSE Then(P1, "throttle", 1, id, r.result[Len(r.result)], 0) :
          Q \in {P}})

\* the fn given to throttle is invoked for the job id: executeWithRetry
\* when the option retry is set, else executeFetch(0)
StartFn(P, id, t) ==
  Only({IF OptionsOf(Q, id).retry THEN StartRetry(Q, id, t)
        ELSE StartAttempt(Q, id, t) :
          Q \in {P}})

\* a variant that starts the first attempt without waiting for admission
StartThrottleEager(P, id, t) ==
  LET r  == Throttle(P.rl, id, P.requests[id].priority, t, timeWindow,
                     maxRequests)
      P1 == [P EXCEPT !.rl = r.rl,
                      !.throttled[id] =
                         IF r.started = id THEN "active" ELSE "waiting",
                      !.rlStarts = LogStart(@, r.started, t, FALSE)]
  IN  StartFn(P1, id, t)

\* this.rateLimiter.throttle(...) called by the fn of the dispatched job id
StartThrottle(P, id, t) ==
  Only({LET r  == Throttle(Q.rl, id, Q.requests[id].priority, t, timeWindow,
                           maxRequests)
            P1 == [Q EXCEPT !.rl = r.rl,
                            !.throttled[id] =
                               IF r.started = id THEN "active" ELSE "waiting",
                            !.rlStarts = LogStart(@, r.started, t, FALSE)]
        IN  IF r.started = id THEN StartFn(P1, id, t) ELSE P1 :
          Q \in {P}})

\* the fn of the job that process() dispatched is invoked
Dispatched(P, d, t) ==
  IF d = 0 THEN P
  ELSE StartThrottle([P EXCEPT !.dispatchLog = Append(@, d)], d, t)

\* a variant that counts a failed request in both counters
UpdateMetricsBoth(m, success) ==
  IF success THEN [m EXCEPT !.successfulRequests = @ + 1]
  ELSE [m EXCEPT !.failedRequests = @ + 1, !.successfulRequests = @ + 1]

\* updateMetrics(responseTime, success): the counters
UpdateMetrics(m, success) ==
  IF success THEN [m EXCEPT !.successfulRequests = @ + 1]
  ELSE [m EXCEPT !.failedRequests = @ + 1]

\* how RequestQueue.process classifies the outcome o of request.fn
KindOf(o) ==
  IF o = OkValue THEN "value"
  ELSE IF o.name = "AbortError" THEN "AbortError" ELSE "Error"

\* a variant that waits until every promise is settled
PromiseAllWaits(ids, cs, c) ==
  LET Failed(i) == cs[ids[i]].outcome \notin {Pending, OkValue}
  IN  IF \E i \in 1..Len(ids) : cs[ids[i]].outcome = Pending THEN Pending
      ELSE IF \E i \in 1..Len(ids) : Failed(i)
      THEN LET k == CHOOSE i \in 1..Len(ids) :
                      Failed(i) /\ \A j \in 1..(i - 1) : ~Failed(j)
           IN  [kind |-> "rejected", request |-> ids[k],
                reason |-> cs[ids[k]].outcome]
      ELSE [kind |-> "fulfilled",
            value |-> [i \in 1..Len(ids) |->
                         [request |-> ids[i], value |-> cs[ids[i]].outcome]]]

\* the promises of the calls ids, as Promise.all sees them when the promise
\* of call c was just settled (c = 0: when Promise.all is called): rejected
\* with the reason of the first promise that rejects, fulfilled with the
\* values in the order of ids once all are fulfilled
PromiseAll(ids, cs, c) ==
  LET Failed(i) == cs[ids[i]].outcome \notin {Pending, OkValue}
  IN  IF c # 0 /\ (\E i \in 1..Len(ids) : ids[i] = c /\ Failed(i))
      THEN [kind |-> "rejected", request |-> c, reason |-> cs[c].outcome]
      ELSE IF \A i \in 1..Len(ids) : cs[ids[i]].outcome = OkValue
      THEN [kind |-> "fulfilled",
            value |-> [i \in 1..Len(ids) |->
                         [request |-> ids[i], value |-> cs[ids[i]].outcome]]]
      ELSE IF c = 0 /\ (\E i \in 1..Len(ids) : Failed(i))
      THEN LET k == CHOOSE i \in 1..Len(ids) :
                      Failed(i) /\ \A j \in 1..(i - 1) : ~Failed(j)
           IN  [kind |-> "rejected", request |-> ids[k],
                reason |-> cs[ids[k]].outcome]
      ELSE Pending

\* the entry of Promise.allSettled for the settled promise of call c
SettledEntry(cs, c) ==
  IF cs[c].outcome = OkValue
  THEN [status |-> "fulfilled", request |-> c, value |-> cs[c].outcome]
  ELSE [status |-> "rejected", request |-> c, reason |-> cs[c].outcome]

\* a variant that lists the entries in the reverse order
PromiseAllSettledReversed(ids, cs) ==
  IF \A i \in 1..Len(ids) : cs[ids[i]].outcome # Pending
  THEN [kind |-> "fulfilled",
        value |-> [i \in 1..Len(ids) |->
                     SettledEntry(cs, ids[Len(ids) + 1 - i])]]
  ELSE Pending

\* Promise.allSettled over the promises of the calls ids: fulfilled with one
\* entry per promise, in the order of ids, once all are settled
PromiseAllSettled(ids, cs) ==
  IF \A i \in 1..Len(ids) : cs[ids[i]].outcome # Pending
  THEN [kind |-> "fulfilled",
        value |-> [i \in 1..Len(ids) |-> SettledEntry(cs, ids[i])]]
  ELSE Pending

\* the index of the first call of ids that has settled (ok = FALSE) or that
\* has fulfilled (ok = TRUE), 0 when there is none
FirstSettled(ids, cs, ok) ==
  LET Is(i) == IF ok THEN cs[ids[i]].outcome = OkValue
               ELSE cs[ids[i]].outcome # Pending
  IN  IF \E i \in 1..Len(ids) : Is(i)
      THEN CHOOSE i \in 1..Len(ids) : Is(i) /\ \A j \in 1..(i - 1) : ~Is(j)
      ELSE 0

\* what a promise settled with cs[c].outcome hands to the promise it settles
Forwarded(cs, c) ==
  IF cs[c].outcome = OkValue
  THEN [kind |-> "fulfilled", request |-> c, value |-> cs[c].outcome]
  ELSE [kind |-> "rejected", request |-> c, reason |-> cs[c].outcome]

\* Promise.race over the promises of the calls ids, when the promise of call
\* c was just settled (c = 0: when Promise.race is called): it settles as
\* the first promise that settles does; over no promise it stays pending
PromiseRace(ids, cs, c) ==
  IF c # 0
  THEN IF \E i \in 1..Len(ids) : ids[i] = c THEN Forwarded(cs, c) ELSE Pending
  ELSE IF FirstSettled(ids, cs, FALSE) = 0 THEN Pending
       ELSE Forwarded(cs, ids[FirstSettled(ids, cs, FALSE)])

\* the AggregateError of Promise.any: the reasons in the order of the list
AggregateError(ids, cs) ==
  [name |-> "AggregateError", aborted |-> FALSE, status |-> 0,
   respStatus |-> 0, errors |-> [i \in 1..Len(ids) |-> cs[ids[i]].outcome]]

\* Promise.any over the promises of the calls ids, when the promise of call
\* c was just settled (c = 0: when Promise.any is called): fulfilled with
\* the value of the first promise that fulfils, rejected with an
\* AggregateError once every promise is rejected (at once over no promise)
PromiseAny(ids, cs, c) ==
  IF c # 0 /\ (\E i \in 1..Len(ids) : ids[i] = c) /\ cs[c].outcome = OkValue
  THEN Forwarded(cs, c)
  ELSE IF c = 0 /\ FirstSettled(ids, cs, TRUE) # 0
  THEN Forwarded(cs, ids[FirstSettled(ids, cs, TRUE)])
  ELSE IF \A i \in 1..Len(ids) : cs[ids[i]].outcome \notin {Pending, OkValue}
  THEN [kind |-> "rejected", request |-> 0, reason |-> AggregateError(ids, cs)]
  ELSE Pending

\* results.filter(r => r.status === status).length
CountStatus(results, status) ==
  Cardinality({i \in 1..Len(results) : results[i].status = status})

NoSummary == [total |-> 0, successful |-> 0, failed |-> 0]

\* the rejection of an async function in which emit threw
ObserverRejection ==
  [kind |-> "rejected", request |-> 0, reason |-> ObserverError]

\* the catch block of all(), race() and any(): emit batch:error, throw error
AllCatch(P, b, r) ==
  LET e == EmitIn(P, "batch:error")
  IN  [e.state EXCEPT !.batches[b].outcome =
         IF e.threw THEN ObserverRejection ELSE r]

\* all() after await Promise.all(...) settled with r, and likewise race()
\* and any(): emit batch:success and return, or the catch block
AllContinues(P, b, r) ==
  Only({IF e.threw
        THEN AllCatch(e.state, b,
                      IF r.kind = "fulfilled" THEN ObserverRejection ELSE r)
        ELSE [e.state EXCEPT !.batches[b].outcome = r] :
          e \in {IF r.kind = "fulfilled" THEN EmitIn(P, "batch:success")
                 ELSE [state |-> P, threw |-> TRUE]}})

\* allSettled() after await Promise.allSettled(...) settled with r: it
\* counts the entries of each status, emits batch:complete, returns results
AllSettledContinues(P, b, r) ==
  LET e == EmitIn(P, "batch:complete")
  IN  [e.state EXCEPT
         !.batches[b].summary =
            [total |-> Len(P.batches[b].calls),
             successful |-> CountStatus(r.value, "fulfilled"),
             failed |-> CountStatus(r.value, "rejected")],
         !.batches[b].outcome = IF e.threw THEN ObserverRejection ELSE r]

\* all(), allSettled(), race() or any() after its await settled with r;
\* unsettled records the calls of the list that are pending when the batch
\* settles (history)
BatchContinues(P, b, r) ==
  LET B  == P.batches[b]
      P1 == [P EXCEPT !.batches[b].unsettled =
               {B.calls[i] : i \in {j \in 1..Len(B.calls) :
                                      P.calls[B.calls[j]].outcome = Pending}}]
  IN  IF B.type = "allSettled" THEN AllSettledContinues(P1, b, r)
      ELSE AllContinues(P1, b, r)

\* the batch that the call c of request() belongs to, 0 when it has none
BatchOf(bs, c) ==
  IF \E b \in 1..Len(bs) : \E i \in 1..Len(bs[b].calls) : bs[b].calls[i] = c
  THEN CHOOSE b \in 1..Len(bs) :
         \E i \in 1..Len(bs[b].calls) : bs[b].calls[i] = c
  ELSE 0

\* the promises of the calls as the combinators have seen them: a promise
\* whose reaction is still in the microtask queue counts as pending
SeenCalls(P) ==
  [c \in 1..Len(P.calls) |->
     IF \E i \in 1..Len(P.jobs) :
          P.jobs[i].kind = "Promise" /\ P.jobs[i].id = c
     THEN [P.calls[c] EXCEPT !.outcome = Pending]
     ELSE P.calls[c]]

\* the reaction that Promise.all, allSettled, race or any of the batch b
\* registered on the promise of call c runs (c = 0: the combinator is called
\* with an empty list); when this settles the promise of the combinator,
\* which happens once, the batch continues one turn later
SettleBatch(P, b, c) ==
  LET B  == P.batches[b]
      cs == SeenCalls(P)
      r  == CASE B.type = "all" -> PromiseAll(B.calls, cs, c)
              [] B.type = "race" -> PromiseRace(B.calls, cs, c)
              [] B.type = "any" -> PromiseAny(B.calls, cs, c)
              [] OTHER -> PromiseAllSettled(B.calls, cs)
  IN  IF \/ r = Pending
         \/ B.outcome # Pending
         \/ \E i \in 1..Len(P.jobs) :
              P.jobs[i].kind = "batch" /\ P.jobs[i].id = b
      THEN P
      ELSE Then(P, "batch", 0, b, r, 0)

\* the promise of the call c of request() settles with o: the reaction of
\* the combinator of its batch runs one turn later
SettleCall(P, c, o) ==
  Only({IF BatchOf(Q.batches, c) = 0 THEN Q
        ELSE Then(Q, "Promise", 0, c, o, 0) :
          Q \in {[P EXCEPT !.calls[c].outcome = o]}})

\* the pipeline state after getMetrics(): rateLimiter.getStats() ran
\* cleanOldTimestamps()
AfterGetMetrics(P, t) ==
  [P EXCEPT !.rl = GetStats(@, t, timeWindow, maxRequests).rl]

\* getMetrics(): the metrics with rateLimiter.getStats(), which runs
\* cleanOldTimestamps(), requestQueue.getStatus() and
\* timeoutController.getStats()
GetMetrics(P, t) ==
  LET r == GetStats(P.rl, t, timeWindow, maxRequests)
  IN  [state |-> AfterGetMetrics(P, t),
       ret |-> [totalRequests |-> P.metrics.totalRequests,
                successfulRequests |-> P.metrics.successfulRequests,
                failedRequests |-> P.metrics.failedRequests,
                rateLimiter |-> r.ret,
                queue |-> [queued |-> Len(P.queue), running |-> P.running,
                           maxConcurrent |-> maxConcurrent,
                           stats |-> P.stats],
                timeout |-> [activeRequests |->
                               Cardinality({g \in 1..Len(P.guards) :
                                              P.guards[g].active})]]]

\* updateMetrics(responseTime, success): the counters, then
\* this.emit('metrics:update', this.getMetrics())
UpdateMetricsIn(P, success, t) ==
  EmitIn(AfterGetMetrics([P EXCEPT !.metrics = UpdateMetrics(@, success)], t),
         "metrics:update")

\* the catch block of request(): updateMetrics(responseTime, false), emit
\* request:error, throw error
RequestFails(P, c, e, t) ==
  Only({Only({SettleCall(r.state, c, IF r.threw THEN ObserverError ELSE e) :
                r \in {IF m.threw THEN m
                       ELSE EmitIn(m.state, "request:error")}}) :
          m \in {UpdateMetricsIn(P, FALSE, t)}})

\* request() after await this.requestQueue.enqueue(...) settled with o:
\* updateMetrics(responseTime, true), emit request:success, return result;
\* what is thrown in the try block lands in the catch block
RequestSettles(P, c, o, t) ==
  Only({Only({IF r.threw
              THEN RequestFails(r.state, c,
                                IF o = OkValue THEN ObserverError ELSE o, t)
              ELSE SettleCall(r.state, c, o) :
                r \in {IF m.threw THEN m
                       ELSE EmitIn(m.state, "request:success")}}) :
          m \in {IF o = OkValue THEN UpdateMetricsIn(P, TRUE, t)
                 ELSE [state |-> P, threw |-> TRUE]}})

\* process() after await request.fn(...) settled with o: request()
\* continues one turn later.  When request.fn threw undefined, error.name
\* throws a TypeError in the catch block after request.status was set: no
\* counter of stats changes and the promise of enqueue is never settled; the
\* finally block runs, and the promise of process() is rejected with the
\* TypeError, which nothing handles
FinishJob(P, id, o, t) ==
  Only({IF o = NoError
        THEN [Q EXCEPT !.requests[id].status = "failed",
                       !.running = @ - 1,
                       !.pendingProcess = @ + 1]
        ELSE Then([Q EXCEPT !.requests[id].status = SettledStatus(KindOf(o)),
                            !.requests[id].settled = KindOf(o),
                            !.requests[id].outcome = o,
                            !.stats = SettleStats(@, KindOf(o)),
                            !.running = @ - 1,
                            !.pendingProcess = @ + 1],
                  "request", 0, CallOf(Q.calls, id), o, 0) :
          Q \in {P}})

\* processQueue() started the fn of the job id
Waited(P, id) ==
  \E i \in 1..Len(P.rlStarts) : P.rlStarts[i].id = id /\ P.rlStarts[i].waited

\* throttle() / processQueue() after await fn() settled with o:
\* completeRequest() may start the fn of the first waiting entry.  throttle()
\* runs it in its finally block and settles then: the fn of the job
\* continues one turn later, process() two.  processQueue() settles the
\* promise of the entry first, which settles the promise of throttle() one
\* turn later: process() continues three turns later
FinishThrottle(P, id, o, t) ==
  Only({LET r  == CompleteRequest(Q.rl, t, timeWindow, maxRequests)
            w  == Waited(Q, id)
            P1 == [Q EXCEPT !.rl = r.rl,
                            !.throttled[id] =
                               IF o = OkValue THEN "resolved" ELSE "rejected",
                            !.rlStarts = LogStart(@, r.started, t, TRUE)]
            P2 == IF w THEN Then(P1, "process", 2, id, o, 0) ELSE P1
            P3 == IF r.started = 0 THEN P2
                  ELSE StartFn([P2 EXCEPT !.throttled[r.started] = "active"],
                               r.started, t)
        IN  IF w THEN P3 ELSE Then(P3, "process", 1, id, o, 0) :
          Q \in {P}})

\* executeWithRetry after await fn(attempt) settled with o: it sleeps, or
\* it settles, and then the fn given to throttle continues one turn later,
\* throttle() or processQueue() two
FinishAttempt(P, id, o, jitter, t) ==
  Only({LET delay == CalculateDelay(initialDelay, backoffMultiplier, maxDelay,
                                    Q.retry[id].attempt, jitter)
            r  == IF o = OkValue
                  THEN AttemptSucceeded(Q.retry[id], Q.attemptLog[id],
                                        Q.retryResult[id])
                  ELSE AttemptFailed(Q.retry[id], Q.attemptLog[id],
                                     Q.retryResult[id],
                                     o @@ [attempt |-> Q.retry[id].attempt],
                                     maxRetries, retryableErrors, delay, t)
            P1 == [Q EXCEPT !.retry[id] = r.retry, !.attemptLog[id] = r.log,
                            !.retryResult[id] = r.result]
        IN  IF r.retry.pc = "sleep" THEN P1
            ELSE Then(P1, "throttle", 1, id, r.result[Len(r.result)], 0) :
          Q \in {P}})

\* executeWithTimeout and executeFetch after the race of guard g settled
\* with out: cleanup(id), then executeFetch throws, returns or reads the body
RaceSettles(P, g, out, jitter, t) ==
  Only({LET P1 == [Q EXCEPT !.guards[g] = SettleRace(@, out)]
            o  == ExecuteFetchOutcome(out, Q.guards[g].timeout)
        IN  IF o = Pending THEN [P1 EXCEPT !.guards[g].reading = TRUE]
            ELSE AttemptSettled([P1 EXCEPT !.guards[g].fetched = o],
                                Q.guards[g].req, o, jitter, 0) :
          Q \in {P}})

\* executeWithRetry after await this.sleep(delay), for the request id: the
\* next attempt
NextAttempt(P, id, t) ==
  Only({LET r  == LoopEntry(Q.retry[id], Q.attemptLog[id], Q.retryResult[id],
                            Q.retry[id].attempt + 1, maxRetries, t)
            P1 == [Q EXCEPT !.retry[id] = r.retry, !.attemptLog[id] = r.log,
                            !.retryResult[id] = r.result]
        IN  IF r.retry.pc = "attempt" THEN StartAttempt(P1, id, t)
            ELSE Then(P1, "throttle", 1, id, r.result[Len(r.result)], 0) :
          Q \in {P}})

\* one turn of the microtask queue for its first job j, which was taken
\* from the queue of P; a job that is alone in the queue stays the first one
\* until it runs
RunJob(P, j, t) ==
  IF j.hops > 0 /\ P.jobs # <<>>
  THEN [P EXCEPT !.jobs = Append(@, [j EXCEPT !.hops = @ - 1])]
  ELSE CASE j.kind = "executeFetch" ->
              RaceSettles(P, j.id, j.o, j.jitter, t)
         [] j.kind = "executeWithRetry" ->
              FinishAttempt(P, j.id, j.o, j.jitter, t)
         [] j.kind = "sleep" -> NextAttempt(P, j.id, t)
         [] j.kind = "throttle" -> FinishThrottle(P, j.id, j.o, t)
         [] j.kind = "process" -> FinishJob(P, j.id, j.o, t)
         [] j.kind = "request" -> RequestSettles(P, j.id, j.o, t)
         [] j.kind = "Promise" ->
              SettleBatch(P, BatchOf(P.batches, j.id), j.id)
         [] OTHER -> BatchContinues(P, j.id, j.o)

RECURSIVE Drain(_, _)
\* the microtask queue runs until it is empty, first in, first out
Drain(P, t) ==
  Only({IF Q.jobs = <<>> THEN Q
        ELSE Only({Drain(RunJob([Q EXCEPT !.jobs = Tail(@)], j, t), t) :
                     j \in {Head(Q.jobs)}}) :
          Q \in {P}})

\* the step leads to the pipeline state P once the microtask queue has run
\* empty
Apply(P) ==
  \E Q \in {Drain(P, now)} :
    /\ requests' = Q.requests
    /\ queue' = Q.queue
    /\ running' = Q.running
    /\ stats' = Q.stats
    /\ pendingProcess' = Q.pendingProcess
    /\ dispatchLog' = Q.dispatchLog
    /\ rlQueue' = Q.rl.queue
    /\ activeRequests' = Q.rl.activeRequests
    /\ requestTimestamps' = Q.rl.requestTimestamps
    /\ throttled' = Q.throttled
    /\ rlStarts' = Q.rlStarts
    /\ retry' = Q.retry
    /\ attemptLog' = Q.attemptLog
    /\ retryResult' = Q.retryResult
    /\ guards' = Q.guards
    /\ metrics' = Q.metrics
    /\ calls' = Q.calls
    /\ batches' = Q.batches
    /\ events' = Q.events
    /\ delivered' = Q.delivered
    /\ UNCHANGED <<maxConcurrent, paused, maxRequests, timeWindow, optMaxRetries,
                   maxRetries, initialDelay, maxDelay, backoffMultiplier,
                   retryableErrors, defaultTimeout>>

\* the jitter values calculateDelay may draw for the current attempt of id
JitterOf(id) ==
  JitterValues(ExponentialDelay(initialDelay, backoffMultiplier,
                                retry[id].attempt))

\* request(url, options) up to its await: totalRequests++, emit
\* request:start, enqueue, whose process() may invoke the fn of a job
RequestResult(P, opts, t) ==
  LET e  == EmitIn([P EXCEPT !.metrics.totalRequests = @ + 1],
                   "request:start")
      r  == EnqueueResult(P.queue, P.running, P.requests, maxConcurrent,
                          opts.priority)
      P1 == [e.state EXCEPT
               !.requests = r.requests, !.queue = r.queue,
               !.running = r.running, !.stats.total = @ + 1,
               !.calls = Append(@, [job |-> Len(r.requests),
                                    outcome |-> Pending,
                                    options |-> opts])]
  IN  IF e.threw
      THEN [e.state EXCEPT
              !.calls = Append(@, [job |-> 0, outcome |-> ObserverError,
                                   options |-> opts])]
      ELSE Dispatched(P1, r.dispatched, t)

\* ApiWrapper.request(url, options)
ApiRequest(opts) == Apply(RequestResult(PState, opts, now))

RECURSIVE RequestEach(_, _, _)
\* requests.map(req => this.request(req.url, req.options)) for the
\* options ps of the requests
RequestEach(P, ps, t) ==
  IF ps = <<>> THEN P
  ELSE RequestEach(RequestResult(P, Head(ps), t), Tail(ps), t)

\* the reactions that a combinator called with the promises of the calls
\* ids queues at once: those on the promises that are settled already
Reactions(ids, cs) ==
  LET settled == SelectSeq(ids, LAMBDA c : cs[c].outcome # Pending)
  IN  [i \in 1..Len(settled) |->
         Job("Promise", 0, settled[i], cs[settled[i]].outcome, 0)]

\* all(requests), allSettled(requests), race(requests) and any(requests) up
\* to the await: emit batch:start, one request() per entry, and Promise.all,
\* Promise.allSettled, Promise.race or Promise.any over them
BatchResult(P, type, ps, t) ==
  LET e   == EmitIn(P, "batch:start")
      P1  == RequestEach(e.state, ps, t)
      ids == [i \in 1..Len(ps) |-> Len(P.calls) + i]
      P2  == [P1 EXCEPT !.batches =
                Append(@, [type |-> type, calls |-> ids, outcome |-> Pending,
                           summary |-> NoSummary, unsettled |-> {}])]
  IN  IF e.threw
      THEN [e.state EXCEPT !.batches =
              Append(@, [type |-> type, calls |-> <<>>,
                         outcome |-> ObserverRejection,
                         summary |-> NoSummary, unsettled |-> {}])]
      ELSE IF ps = <<>> THEN SettleBatch(P2, Len(P2.batches), 0)
      ELSE [P2 EXCEPT !.jobs = @ \o Reactions(ids, P2.calls)]

\* ApiWrapper.all(requests)
ApiAll(ps) == Apply(BatchResult(PState, "all", ps, now))

\* ApiWrapper.allSettled(requests)
ApiAllSettled(ps) == Apply(BatchResult(PState, "allSettled", ps, now))

\* ApiWrapper.race(requests)
ApiRace(ps) == Apply(BatchResult(PState, "race", ps, now))

\* ApiWrapper.any(requests)
ApiAny(ps) == Apply(BatchResult(PState, "any", ps, now))

\* ApiWrapper.getMetrics()
ApiGetMetrics ==
  LET r == GetMetrics(PState, now)
  IN  /\ Apply(r.state)
      /\ returned' = [call |-> "getMetrics", arg |-> 0,
                      value |-> JsObject(r.ret)]

\* the callback of setTimeout(() => this.process(), 0)
ApiProcessTimer ==
  /\ pendingProcess > 0
  /\ LET r  == Process(queue, running, requests, maxConcurrent)
         P1 == [PState EXCEPT
                  !.requests = r.requests, !.queue = r.queue,
                  !.running = r.running, !.pendingProcess = @ - 1]
     IN  Apply(Dispatched(P1, r.dispatched, now))

\* response.json() of the attempt of guard g settles: executeWithTimeout
\* has returned and cleanup(id) has run, so neither timer ends the wait;
\* executeFetch continues one turn later
BodySettles(g, body) ==
  /\ guards[g].reading
  /\ LET P1 == [PState EXCEPT !.guards[g].reading = FALSE,
                              !.guards[g].fetched = ResponseJson(body)]
     IN  \E jitter \in JitterOf(guards[g].req) :
           Apply(AttemptSettled(P1, guards[g].req, ResponseJson(body), jitter,
                                1))

\* a variant in which the settlement of the operation always reaches
\* executeFetch, also after the race was settled
OperationSettlesLate(g, out) ==
  /\ guards[g].op = "running"
  /\ LET P1 == [PState EXCEPT !.guards[g].op = "settled"]
     IN  \E jitter \in JitterOf(guards[g].req) :
           Apply(Then(P1, "executeFetch", 2, g, out, jitter))

\* the operation of guard g settles with out, which settles the race when it
\* is still pending: the reaction of Promise.race, executeWithTimeout and
\* executeFetch continue in the three turns that follow
OperationSettles(g, out) ==
  /\ guards[g].op = "running"
  /\ LET P1 == [PState EXCEPT !.guards[g].op = "settled"]
     IN  IF guards[g].race = "pending"
         THEN \E jitter \in JitterOf(guards[g].req) :
                Apply(Then(P1, "executeFetch", 2, g, out, jitter))
         ELSE Apply(P1)

\* the timer of createWithTimeout fires: controller.abort() and removal from
\* activeRequests.  An operation that honours the signal rejects with an
\* AbortError, which settles the race; another one goes on
GuardTimerFires(g, honours) ==
  /\ guards[g].timer
  /\ now >= guards[g].due
  /\ LET P1 == [PState EXCEPT !.guards[g] =
                  [@ EXCEPT !.timer = FALSE, !.aborted = TRUE,
                            !.active = FALSE]]
     IN  IF guards[g].op = "running" /\ honours
         THEN \E jitter \in JitterOf(guards[g].req) :
                Apply(Then([P1 EXCEPT !.guards[g].op = "settled"],
                           "executeFetch", 2, g,
                           [kind |-> "rejection", error |-> AbortError],
                           jitter))
         ELSE Apply(P1)

\* the timer of createTimeoutPromise fires: it rejects the race with its
\* TimeoutError, which has no timeout field; it was armed after the timer of
\* createWithTimeout and fires after it
RaceTimerFires(g) ==
  /\ guards[g].raceTimer
  /\ ~guards[g].timer
  /\ now >= guards[g].due
  /\ LET P1 == [PState EXCEPT !.guards[g].raceTimer = FALSE]
     IN  IF guards[g].race = "pending"
         THEN \E jitter \in JitterOf(guards[g].req) :
                Apply(Then(P1, "executeFetch", 2, g,
                           [kind |-> "rejection",
                            error |-> TimeoutPromiseError],
                           jitter))
         ELSE Apply(P1)

\* the timer of sleep(delay) fires for request id: executeWithRetry
\* continues one turn later
ApiSleepDone(id) ==
  /\ retry[id].pc = "sleep"
  /\ now >= retry[id].wake
  /\ Apply(Then(PState, "sleep", 0, id, Pending, 0))

\* a timer of TimeoutController is due
GuardTimerDue ==
  \E g \in 1..Len(guards) :
    (guards[g].timer \/ guards[g].raceTimer) /\ now >= guards[g].due

\* ---- TimeoutController called directly

\* a call of executeWithTimeout(fetchPromise, timeout) up to its await
ExecuteWithTimeout(timeout) ==
  /\ guards' = Append(guards, NewGuard(0, 0, now, timeout))
  /\ returned' = NoReturn
  /\ UNCHANGED <<defaultTimeout, metrics, calls, batches, events, delivered>>

\* the operation of guard g settles with out; this settles the race when it
\* is still pending
OperationSettlesAlone(g, out) ==
  /\ guards[g].op = "running"
  /\ guards' = [guards EXCEPT ![g] =
                  IF @.race = "pending"
                  THEN SettleRace([@ EXCEPT !.op = "settled"], out)
                  ELSE [@ EXCEPT !.op = "settled"]]
  /\ returned' = NoReturn
  /\ UNCHANGED <<defaultTimeout, metrics, calls, batches, events, delivered>>

\* an operation that honours its signal rejects with an AbortError when the
\* signal is triggered, which settles the race
SignalRejects(g) ==
  IF g.op = "running" /\ g.race = "pending"
  THEN SettleRace([g EXCEPT !.op = "settled"],
                  [kind |-> "rejection", error |-> AbortError])
  ELSE g

\* the callback of the timer armed by createWithTimeout: controller.abort()
\* and this.activeRequests.delete(id)
TimeoutCallback(g) ==
  [g EXCEPT !.timer = FALSE, !.aborted = TRUE, !.active = FALSE]

\* the timer armed by createWithTimeout for guard g fires
TimeoutFires(g, honours) ==
  /\ guards[g].timer
  /\ now >= guards[g].due
  /\ guards' = [guards EXCEPT ![g] =
                  IF honours THEN SignalRejects(TimeoutCallback(@))
                  ELSE TimeoutCallback(@)]
  /\ returned' = NoReturn
  /\ UNCHANGED <<defaultTimeout, metrics, calls, batches, events, delivered>>

\* the timer armed by createTimeoutPromise for guard g fires, after the one
\* armed by createWithTimeout: it rejects the race with a TimeoutError
TimeoutPromiseFires(g) ==
  /\ guards[g].raceTimer
  /\ ~guards[g].timer
  /\ now >= guards[g].due
  /\ guards' = [guards EXCEPT ![g] =
                  IF @.race = "pending"
                  THEN SettleRace([@ EXCEPT !.raceTimer = FALSE],
                                  [kind |-> "rejection",
                                   error |-> TimeoutPromiseError])
                  ELSE [@ EXCEPT !.raceTimer = FALSE]]
  /\ returned' = NoReturn
  /\ UNCHANGED <<defaultTimeout, metrics, calls, batches, events, delivered>>

\* clearTimeout(request.timeoutId) and request.controller.abort(), in abort
\* and abortAll, followed by the removal from activeRequests
AbortGuard(g) ==
  [g EXCEPT !.timer = FALSE, !.aborted = TRUE, !.active = FALSE,
            !.manual = TRUE]

\* a variant of the test in abort that accepts every guard ever created
AbortAcceptsAny(gs, id) == id \in 1..Len(gs)

\* this.activeRequests.get(requestId) found a guard
AbortAccepts(gs, id) == id \in 1..Len(gs) /\ gs[id].active

\* the guards after abort(requestId), and what it returns
AbortResult(gs, id) ==
  IF AbortAccepts(gs, id)
  THEN [guards |-> [gs EXCEPT ![id] = AbortGuard(@)], ret |-> TRUE]
  ELSE [guards |-> gs, ret |-> FALSE]

\* the guards after the operations of the guards in hit that honour their
\* signal (those in honouring) reacted to it
AfterSignals(gs, hit, honouring) ==
  [g \in 1..Len(gs) |->
     IF g \in hit /\ g \in honouring THEN SignalRejects(gs[g]) ELSE gs[g]]

\* abort(requestId)
Abort(id, honours) ==
  /\ LET r == AbortResult(guards, id)
     IN  /\ guards' = AfterSignals(r.guards,
                                   IF r.ret THEN {id} ELSE {},
                                   IF honours THEN {id} ELSE {})
         /\ returned' = [call |-> "abort", arg |-> id,
                         value |-> JsBoolean(r.ret)]
  /\ UNCHANGED <<defaultTimeout, metrics, calls, batches, events, delivered>>

\* the guards in activeRequests
ActiveGuards(gs) == {g \in 1..Len(gs) : gs[g].active}

\* the guards after the forEach and the clear() of abortAll
AbortAllResult(gs) ==
  [g \in 1..Len(gs) |-> IF gs[g].active THEN AbortGuard(gs[g]) ELSE gs[g]]

\* abortAll(): it has no return statement
AbortAll(honouring) ==
  /\ guards' = AfterSignals(AbortAllResult(guards), ActiveGuards(guards),
                            honouring)
  /\ returned' = [call |-> "abortAll", arg |-> Cardinality(ActiveGuards(guards)),
                  value |-> JsUndefined]
  /\ UNCHANGED <<defaultTimeout, metrics, calls, batches, events, delivered>>

\* ---- ApiWrapper.cancelAll

\* the promises of enqueue of the jobs ids were rejected by cancel: request()
\* continues in its catch block one turn later, in the order of the queue
FinishCancelled(P, ids) ==
  [P EXCEPT !.jobs = @ \o
     [i \in 1..Len(ids) |->
        Job("request", 0, CallOf(P.calls, ids[i]), RequestCancelled, 0)]]

\* the promises of the entries of the wait list were rejected by clearQueue:
\* the promise of throttle() is rejected one turn later, the fn of the job
\* two, and process() continues three turns later, in the order of the list
FinishCleared(P, entries) ==
  [P EXCEPT !.jobs = @ \o
     [i \in 1..Len(entries) |->
        Job("process", 2, entries[i].id, QueueCleared, 0)]]

\* the operations of the guards in hit that honour their signal reject with
\* an AbortError when controller.abort() is called, in the order of
\* activeRequests; this settles their races
SettleAborted(P, hit) ==
  LET Hit(g) == /\ g \in hit
                /\ P.guards[g].op = "running"
                /\ P.guards[g].race = "pending"
      gs == SelectSeq([g \in 1..Len(P.guards) |-> g], Hit)
  IN  [P EXCEPT
         !.guards = [g \in 1..Len(P.guards) |->
                       IF Hit(g) THEN [P.guards[g] EXCEPT !.op = "settled"]
                       ELSE P.guards[g]],
         !.jobs = @ \o
           [i \in 1..Len(gs) |->
              Job("executeFetch", 2, gs[i],
                  [kind |-> "rejection", error |-> AbortError], 0)]]

\* timeoutController.abortAll() called on the controller of the wrapper
ApiAbortAll(honouring) ==
  /\ Apply(SettleAborted([PState EXCEPT !.guards = AbortAllResult(@)],
                         ActiveGuards(guards) \cap honouring))
  /\ returned' = [call |-> "abortAll",
                  arg |-> Cardinality(ActiveGuards(guards)),
                  value |-> JsUndefined]

\* ApiWrapper.cancelAll(): timeoutController.abortAll(),
\* requestQueue.cancelAll(), rateLimiter.clearQueue(), emit cancelAll; then
\* the promises they rejected run their continuations
ApiCancelAll(honouring) ==
  LET ids == QueuedIds(queue, requests)
      c   == CancelEach(ids, queue, requests, stats)
      q   == ClearQueueResult(rlQueue, throttled)
      P0  == [PState EXCEPT
                !.guards = AbortAllResult(@),
                !.queue = c.queue, !.requests = c.requests, !.stats = c.stats,
                !.rl.queue = q.queue, !.throttled = q.throttled]
      P1  == SettleAborted(P0, ActiveGuards(guards) \cap honouring)
      P2  == FinishCleared(FinishCancelled(P1, ids), rlQueue)
  IN  /\ Apply(EmitIn(P2, "cancelAll").state)
      /\ returned' = [call |-> "ApiWrapper.cancelAll", arg |-> 0,
                      value |-> JsUndefined]

\* the counters of this.metrics after the constructor or resetMetrics()
NoMetrics ==
  [totalRequests |-> 0, successfulRequests |-> 0, failedRequests |-> 0]

\* resetMetrics(): the metrics start again, requestQueue.resetStats(), emit
\* metrics:reset
ApiResetMetrics ==
  LET P1 == [PState EXCEPT
               !.metrics = NoMetrics,
               !.stats = NoStats]
  IN  Apply(EmitIn(P1, "metrics:reset").state)

ApiInit(timeout) ==
  /\ defaultTimeout = timeout
  /\ guards = <<>>
  /\ metrics = NoMetrics
  /\ calls = <<>>
  /\ batches = <<>>
  /\ events = NoListeners
  /\ delivered = <<>>

\* the wrapper of a component that is modelled on its own: never called
ApiIdle == ApiInit(DefaultTimeout)

\* the queue of a limiter that is modelled on its own: never used
QIdle ==
  /\ maxConcurrent = DefaultMaxConcurrent
  /\ paused = JsUndefined
  /\ requests = <<>>
  /\ queue = <<>>
  /\ running = 0
  /\ stats = NoStats
  /\ pendingProcess = 0
  /\ dispatchLog = <<>>

QEnqueue ==
  /\ Len(requests) < MaxJobs
  /\ \E p \in Priorities : Enqueue(p)
  /\ UNCHANGED <<now, rlvars, rmvars, apivars>>
  /\ returned' = NoReturn

QProcessTimer ==
  /\ ProcessTimer
  /\ UNCHANGED <<now, rlvars, rmvars, apivars>>
  /\ returned' = NoReturn

QSettle ==
  /\ \E id \in 1..MaxJobs, k \in SettleKinds : Settle(id, k)
  /\ UNCHANGED <<now, rlvars, rmvars, apivars>>
  /\ returned' = NoReturn

QCancel ==
  /\ \E id \in 1..MaxJobs : Cancel(id)
  /\ UNCHANGED <<now, rlvars, rmvars, apivars>>

QCancelAll == CancelAll /\ UNCHANGED <<now, rlvars, rmvars, apivars>>

InitQueue ==
  /\ QInit(OptMaxConcurrent) /\ now = 0 /\ RLIdle /\ RMIdle /\ ApiIdle
  /\ returned = NoReturn

NextQueue ==
  \/ QEnqueue
  \/ QProcessTimer
  \/ QSettle
  \/ QCancel
  \/ QCancelAll

\* the passage of one millisecond
Tick == now' = now + 1

RateThrottle ==
  /\ \E p \in Priorities : RLThrottle(p)
  /\ UNCHANGED <<qvars, now, rmvars, apivars>>
  /\ returned' = NoReturn

RateComplete ==
  /\ \E id \in 1..RLMaxCalls, k \in {"value", "Error"} : RLComplete(id, k)
  /\ UNCHANGED <<qvars, now, rmvars, apivars>>
  /\ returned' = NoReturn

RateClearQueue ==
  /\ ClearQueue
  /\ UNCHANGED <<qvars, now, rmvars, apivars>>

RateGetWaitTime ==
  /\ RLGetWaitTime
  /\ UNCHANGED <<qvars, now, rmvars, apivars>>

RateGetStats ==
  /\ RLGetStats
  /\ UNCHANGED <<qvars, now, rmvars, apivars>>

RateTick ==
  /\ now < RLMaxTime
  /\ Tick
  /\ UNCHANGED <<qvars, rlvars, rmvars, apivars>>
  /\ returned' = NoReturn

InitRate ==
  /\ QIdle /\ now = 0 /\ RMIdle /\ ApiIdle
  /\ RLInit(OptMaxRequests, OptTimeWindow, RLMaxCalls)
  /\ returned = NoReturn

NextRate ==
  \/ RateThrottle
  \/ RateComplete
  \/ RateClearQueue
  \/ RateGetWaitTime
  \/ RateGetStats
  \/ RateTick

\* RateLimiter on its own: throttle calls arrive and admitted fns settle at
\* any time
SpecRate == InitRate /\ [][NextRate]_vars

\* RequestQueue on its own: the wrapped operations settle at any time
SpecQueue == InitQueue /\ [][NextQueue]_vars

RetryCall ==
  /\ ExecuteWithRetry(1)
  /\ UNCHANGED <<qvars, now, rlvars, apivars>>
  /\ returned' = NoReturn

RetryAttemptReturns ==
  /\ AttemptReturns(1)
  /\ UNCHANGED <<qvars, now, rlvars, apivars>>
  /\ returned' = NoReturn

RetryAttemptThrows ==
  /\ \E k \in ErrorKinds : AttemptThrows(1, k)
  /\ UNCHANGED <<qvars, now, rlvars, apivars>>
  /\ returned' = NoReturn

RetrySleepDone ==
  /\ SleepDone(1)
  /\ UNCHANGED <<qvars, now, rlvars, apivars>>
  /\ returned' = NoReturn

\* time passes unless a timer is due
RetryTick ==
  /\ now < RetryMaxTime
  /\ ~SleepDue
  /\ Tick
  /\ UNCHANGED <<qvars, rlvars, rmvars, apivars>>
  /\ returned' = NoReturn

RetryInitialDelay == 4
RetryMaxDelay == 10

InitRetry ==
  /\ returned = NoReturn
  /\ QIdle /\ now = 0 /\ RLIdle /\ ApiIdle
  /\ RMInit(OptMaxRetries, OptRetryableErrors, 1, RetryInitialDelay,
            RetryMaxDelay)

NextRetry ==
  \/ RetryCall
  \/ RetryAttemptReturns
  \/ RetryAttemptThrows
  \/ RetrySleepDone
  \/ RetryTick

\* one call of RetryManager.executeWithRetry whose attempts settle at any
\* time with any outcome
SpecRetry == InitRetry /\ [][NextRetry]_vars

ApiOptMaxConcurrent == {1, 2}
ApiOptMaxRequests == {1}
ApiOptTimeWindow == {2}
ApiOptMaxRetries == {-1, 1}
ApiInitialDelay == 1
ApiMaxDelay == 2
ApiTimeout == 2

\* the options of the requests: the default ones, a timeout shorter than
\* the default one, no retry; with at most two requests no two jobs wait
\* together, so one priority is enough
ApiPriorities == {5}
ApiOptTimeouts == {0, 1}
ApiRequestOptions ==
  {opts \in {RequestOptions(p, ms, retried) :
               p \in ApiPriorities, ms \in ApiOptTimeouts,
               retried \in BOOLEAN} : opts.timeout = 0 \/ opts.retry}

WrapperRequest ==
  /\ Len(requests) < ApiMaxRequests
  /\ \E opts \in ApiRequestOptions : ApiRequest(opts)
  /\ UNCHANGED now
  /\ returned' = NoReturn

WrapperProcessTimer ==
  /\ ApiProcessTimer
  /\ UNCHANGED now
  /\ returned' = NoReturn

WrapperOperationSettles ==
  /\ \E g \in 1..Len(guards), out \in FetchOutcomes : OperationSettles(g, out)
  /\ UNCHANGED now
  /\ returned' = NoReturn

WrapperBodySettles ==
  /\ \E g \in 1..Len(guards), body \in BodyOutcomes : BodySettles(g, body)
  /\ UNCHANGED now
  /\ returned' = NoReturn

WrapperGuardTimer ==
  /\ \E g \in 1..Len(guards), honours \in BOOLEAN : GuardTimerFires(g, honours)
  /\ UNCHANGED now
  /\ returned' = NoReturn

WrapperRaceTimer ==
  /\ \E g \in 1..Len(guards) : RaceTimerFires(g)
  /\ UNCHANGED now
  /\ returned' = NoReturn

WrapperGetMetrics ==
  /\ ApiGetMetrics
  /\ UNCHANGED now

\* cancelAll is called while a request is pending
WrapperCancelAll ==
  /\ \E id \in 1..Len(requests) : requests[id].status \in {"queued", "running"}
  /\ \E honouring \in SUBSET ActiveGuards(guards) : ApiCancelAll(honouring)
  /\ UNCHANGED now

\* abortAll is called on the controller of the wrapper while an attempt is
\* in flight
WrapperAbortAll ==
  /\ ActiveGuards(guards) # {}
  /\ \E honouring \in SUBSET ActiveGuards(guards) : ApiAbortAll(honouring)
  /\ UNCHANGED now

WrapperSleepDone ==
  /\ \E id \in DOMAIN retry : ApiSleepDone(id)
  /\ UNCHANGED now
  /\ returned' = NoReturn

\* time passes unless a timer is due
WrapperTick ==
  /\ now < ApiMaxTime
  /\ pendingProcess = 0
  /\ ~SleepDue
  /\ ~GuardTimerDue
  /\ Tick
  /\ UNCHANGED <<qvars, rlvars, rmvars, apivars>>
  /\ returned' = NoReturn

InitApi ==
  /\ returned = NoReturn
  /\ QInit(ApiOptMaxConcurrent)
  /\ now = 0
  /\ RLInit(ApiOptMaxRequests, ApiOptTimeWindow, ApiMaxRequests)
  /\ RMInit(ApiOptMaxRetries, {DefaultRetryableErrors}, ApiMaxRequests,
            ApiInitialDelay, ApiMaxDelay)
  /\ ApiInit(ApiTimeout)

NextApi ==
  \/ WrapperRequest
  \/ WrapperProcessTimer
  \/ WrapperOperationSettles
  \/ WrapperBodySettles
  \/ WrapperGuardTimer
  \/ WrapperRaceTimer
  \/ WrapperSleepDone
  \/ WrapperTick

\* ApiWrapper.request over RequestQueue, RateLimiter, RetryManager and
\* TimeoutController
SpecApi == InitApi /\ [][NextApi]_vars

CancelMaxTime == 2

\* time passes unless a timer is due
CancelTick ==
  /\ now < CancelMaxTime
  /\ pendingProcess = 0
  /\ ~SleepDue
  /\ ~GuardTimerDue
  /\ Tick
  /\ UNCHANGED <<qvars, rlvars, rmvars, apivars>>
  /\ returned' = NoReturn

NextCancel ==
  \/ WrapperRequest
  \/ WrapperProcessTimer
  \/ WrapperOperationSettles
  \/ WrapperBodySettles
  \/ WrapperGuardTimer
  \/ WrapperRaceTimer
  \/ WrapperCancelAll
  \/ WrapperAbortAll
  \/ WrapperSleepDone
  \/ CancelTick

\* ApiWrapper.request, ApiWrapper.cancelAll and abortAll of its controller
SpecCancel == InitApi /\ [][NextCancel]_vars

BatchMaxRequests == 3
BatchMaxBatches == 1
BatchMaxTime == 2

\* the options of the wrapper the batches run on
BatchMaxConcurrent == 2
BatchRateMaxRequests == 2

\* the priorities of the requests of a batch: with two slots, two tickets
\* and three requests no two requests wait together, so one priority is
\* enough
BatchPriorities == {5}

\* the options of the requests of a batch
BatchOptions == {RequestOptions(p, 0, TRUE) : p \in BatchPriorities}

\* the lists of at most n requests, each given by its options
RequestLists(n) == UNION {[1..k -> BatchOptions] : k \in 0..n}

WrapperAll ==
  /\ Len(batches) < BatchMaxBatches
  /\ \E ps \in RequestLists(BatchMaxRequests - Len(calls)) : ApiAll(ps)
  /\ UNCHANGED now
  /\ returned' = NoReturn

WrapperAllSettled ==
  /\ Len(batches) < BatchMaxBatches
  /\ \E ps \in RequestLists(BatchMaxRequests - Len(calls)) : ApiAllSettled(ps)
  /\ UNCHANGED now
  /\ returned' = NoReturn

WrapperRace ==
  /\ Len(batches) < BatchMaxBatches
  /\ \E ps \in RequestLists(BatchMaxRequests - Len(calls)) : ApiRace(ps)
  /\ UNCHANGED now
  /\ returned' = NoReturn

WrapperAny ==
  /\ Len(batches) < BatchMaxBatches
  /\ \E ps \in RequestLists(BatchMaxRequests - Len(calls)) : ApiAny(ps)
  /\ UNCHANGED now
  /\ returned' = NoReturn

\* time passes unless a timer is due
BatchTick ==
  /\ now < BatchMaxTime
  /\ pendingProcess = 0
  /\ ~SleepDue
  /\ ~GuardTimerDue
  /\ Tick
  /\ UNCHANGED <<qvars, rlvars, rmvars, apivars>>
  /\ returned' = NoReturn

InitBatch ==
  /\ returned = NoReturn
  /\ QInit({BatchMaxConcurrent})
  /\ now = 0
  /\ RLInit({BatchRateMaxRequests}, ApiOptTimeWindow, BatchMaxRequests)
  /\ RMInit(ApiOptMaxRetries, {DefaultRetryableErrors}, BatchMaxRequests,
            ApiInitialDelay, ApiMaxDelay)
  /\ ApiInit(ApiTimeout)

\* the operations of the requests of a batch settle with a response that
\* is ok or with a rejection: no attempt is retried
BatchFetchOutcomes ==
  {out \in FetchOutcomes : out.kind = "response" => ResponseOk(out.status)}

BatchOperationSettles ==
  /\ \E g \in 1..Len(guards), out \in BatchFetchOutcomes :
       OperationSettles(g, out)
  /\ UNCHANGED now
  /\ returned' = NoReturn

NextBatch ==
  \/ WrapperAll
  \/ WrapperAllSettled
  \/ WrapperRace
  \/ WrapperAny
  \/ WrapperProcessTimer
  \/ BatchOperationSettles
  \/ WrapperBodySettles
  \/ WrapperGuardTimer
  \/ WrapperRaceTimer
  \/ BatchTick

\* ApiWrapper.all, allSettled, race and any
SpecBatch == InitBatch /\ [][NextBatch]_vars

ObsMaxRequests == 1
ObsMaxListeners == 2
ObsMaxTime == 2

\* the events of a request
LifecycleEvents ==
  {"request:start", "request:attempt", "request:success", "request:error",
   "metrics:update"}

\* the number of callbacks registered
ListenerCount(ev) ==
  LET RECURSIVE Sum(_)
      Sum(S) == IF S = {} THEN 0
                ELSE LET e == CHOOSE x \in S : TRUE
                     IN  Len(ev[e]) + Sum(S \ {e})
  IN  Sum(Events)

\* the callbacks registered so far: those in the lists and the wrappers of
\* once that removed themselves when they were invoked
RegisteredIds ==
  UNION {{events[e][i].id : i \in 1..Len(events[e])} : e \in Events} \cup
  {delivered[i].callback : i \in 1..Len(delivered)}

\* api.on(event, callback) with a new callback that returns or one that throws
WrapperOn ==
  /\ Cardinality(RegisteredIds) < ObsMaxListeners
  /\ \E event \in LifecycleEvents, throws \in BOOLEAN :
       On(event, Listener(Cardinality(RegisteredIds) + 1, throws))
  /\ UNCHANGED <<qvars, now, rlvars, rmvars, defaultTimeout, guards, metrics,
                 calls, batches, delivered>>
  /\ returned' = NoReturn

\* api.once(event, callback) with a new callback that returns or one that
\* throws
WrapperOnce ==
  /\ Cardinality(RegisteredIds) < ObsMaxListeners
  /\ \E event \in LifecycleEvents, throws \in BOOLEAN :
       Once(event, OnceWrapper(Cardinality(RegisteredIds) + 1, throws))
  /\ UNCHANGED <<qvars, now, rlvars, rmvars, defaultTimeout, guards, metrics,
                 calls, batches, delivered>>
  /\ returned' = NoReturn

ObserveRequest ==
  /\ Len(calls) < ObsMaxRequests
  /\ \E opts \in ApiRequestOptions : ApiRequest(opts)
  /\ UNCHANGED now
  /\ returned' = NoReturn

\* time passes unless a timer is due
ObserveTick ==
  /\ now < ObsMaxTime
  /\ pendingProcess = 0
  /\ ~SleepDue
  /\ ~GuardTimerDue
  /\ Tick
  /\ UNCHANGED <<qvars, rlvars, rmvars, apivars>>
  /\ returned' = NoReturn

InitObserve ==
  /\ returned = NoReturn
  /\ QInit({DefaultMaxConcurrent})
  /\ now = 0
  /\ RLInit({DefaultMaxRequests}, ApiOptTimeWindow, ObsMaxRequests)
  /\ RMInit(ApiOptMaxRetries, {DefaultRetryableErrors}, ObsMaxRequests,
            ApiInitialDelay, ApiMaxDelay)
  /\ ApiInit(ApiTimeout)

NextObserve ==
  \/ WrapperOn
  \/ WrapperOnce
  \/ ObserveRequest
  \/ WrapperProcessTimer
  \/ WrapperOperationSettles
  \/ WrapperBodySettles
  \/ WrapperGuardTimer
  \/ WrapperRaceTimer
  \/ WrapperSleepDone
  \/ ObserveTick

\* ApiWrapper.request with observers of its events
SpecObserve == InitObserve /\ [][NextObserve]_vars

EmitterMaxListeners == 2
EmitterMaxDelivered == 3

\* the events the callbacks are registered for when the emitter is used on
\* its own
EmitterEvents == {"request:start", "request:error"}

\* the callbacks a caller holds
EmitterCallbacks ==
  {Listener(id, throws) : id \in 1..EmitterMaxListeners, throws \in BOOLEAN}

\* the wrappers of once that are registered
RegisteredWrappers ==
  UNION {{events[e][i].id : i \in {j \in 1..Len(events[e]) :
                                     events[e][j].once}} : e \in Events}

\* on(event, callback) with a callback the caller holds, registered or not
EmitterOn ==
  /\ ListenerCount(events) < EmitterMaxListeners
  /\ \E event \in EmitterEvents, cb \in EmitterCallbacks : On(event, cb)
  /\ UNCHANGED <<qvars, now, rlvars, rmvars, defaultTimeout, guards, metrics,
                 calls, batches, delivered>>
  /\ returned' = NoReturn

\* once(event, callback): the wrapper is a new function each time
EmitterOnce ==
  /\ ListenerCount(events) < EmitterMaxListeners
  /\ \E event \in EmitterEvents, throws \in BOOLEAN :
       \E id \in 1..EmitterMaxListeners :
         /\ id \notin RegisteredWrappers
         /\ \A j \in 1..(id - 1) : j \in RegisteredWrappers
         /\ Once(event, OnceWrapper(id, throws))
  /\ UNCHANGED <<qvars, now, rlvars, rmvars, defaultTimeout, guards, metrics,
                 calls, batches, delivered>>
  /\ returned' = NoReturn

\* off(event, callback) with a callback the caller holds, registered or not
EmitterOff ==
  /\ \E event \in EmitterEvents, cb \in EmitterCallbacks : Off(event, cb)
  /\ UNCHANGED <<qvars, now, rlvars, rmvars, defaultTimeout, guards, metrics,
                 calls, batches, delivered>>
  /\ returned' = NoReturn

\* the function returned by on() or once() for a registered entry is called
EmitterUnsubscribe ==
  /\ \E event \in EmitterEvents :
       \E i \in 1..Len(events[event]) : Off(event, events[event][i])
  /\ UNCHANGED <<qvars, now, rlvars, rmvars, defaultTimeout, guards, metrics,
                 calls, batches, delivered>>
  /\ returned' = NoReturn

EmitterRemoveListenersOf ==
  /\ \E event \in EmitterEvents : RemoveListenersOf(event)
  /\ UNCHANGED <<qvars, now, rlvars, rmvars, defaultTimeout, guards, metrics,
                 calls, batches, delivered>>
  /\ returned' = NoReturn

EmitterRemoveAllListeners ==
  /\ RemoveAllListeners
  /\ UNCHANGED <<qvars, now, rlvars, rmvars, defaultTimeout, guards, metrics,
                 calls, batches, delivered>>
  /\ returned' = NoReturn

EmitterEmit ==
  /\ Len(delivered) < EmitterMaxDelivered
  /\ \E event \in EmitterEvents : EmitEvent(event)
  /\ UNCHANGED <<qvars, now, rlvars, rmvars, defaultTimeout, guards, metrics,
                 calls, batches>>
  /\ returned' = NoReturn

InitEmitter ==
  /\ QIdle /\ now = 0 /\ RLIdle /\ RMIdle /\ ApiIdle
  /\ returned = NoReturn

NextEmitter ==
  \/ EmitterOn
  \/ EmitterOnce
  \/ EmitterOff
  \/ EmitterUnsubscribe
  \/ EmitterRemoveListenersOf
  \/ EmitterRemoveAllListeners
  \/ EmitterEmit

\* the EventEmitter of ApiWrapper on its own: callbacks are registered and
\* removed and events are emitted from outside
SpecEmitter == InitEmitter /\ [][NextEmitter]_vars

ResetMaxTime == 2

\* resetMetrics() is called when a request was made
WrapperResetMetrics ==
  /\ metrics.totalRequests > 0
  /\ ApiResetMetrics
  /\ UNCHANGED now
  /\ returned' = NoReturn

\* time passes unless a timer is due
ResetTick ==
  /\ now < ResetMaxTime
  /\ pendingProcess = 0
  /\ ~SleepDue
  /\ ~GuardTimerDue
  /\ Tick
  /\ UNCHANGED <<qvars, rlvars, rmvars, apivars>>
  /\ returned' = NoReturn

NextReset ==
  \/ WrapperRequest
  \/ WrapperGetMetrics
  \/ WrapperProcessTimer
  \/ WrapperOperationSettles
  \/ WrapperBodySettles
  \/ WrapperGuardTimer
  \/ WrapperRaceTimer
  \/ WrapperSleepDone
  \/ WrapperResetMetrics
  \/ ResetTick

\* ApiWrapper.request, ApiWrapper.getMetrics and ApiWrapper.resetMetrics
SpecReset == InitApi /\ [][NextReset]_vars

TCMaxCalls == 2
TCMaxTime == 3
OptTimeouts == {1, 2}

ControllerExecute ==
  /\ Len(guards) < TCMaxCalls
  /\ \E timeout \in OptTimeouts : ExecuteWithTimeout(timeout)
  /\ UNCHANGED <<qvars, now, rlvars, rmvars>>

ControllerOperationSettles ==
  /\ \E g \in 1..Len(guards), out \in OperationOutcomes :
       OperationSettlesAlone(g, out)
  /\ UNCHANGED <<qvars, now, rlvars, rmvars>>

ControllerTimeout ==
  /\ \E g \in 1..Len(guards), honours \in BOOLEAN : TimeoutFires(g, honours)
  /\ UNCHANGED <<qvars, now, rlvars, rmvars>>

ControllerTimeoutPromise ==
  /\ \E g \in 1..Len(guards) : TimeoutPromiseFires(g)
  /\ UNCHANGED <<qvars, now, rlvars, rmvars>>

ControllerAbort ==
  /\ \E id \in 1..TCMaxCalls, honours \in BOOLEAN : Abort(id, honours)
  /\ UNCHANGED <<qvars, now, rlvars, rmvars>>

ControllerAbortAll ==
  /\ \E honouring \in SUBSET (1..Len(guards)) : AbortAll(honouring)
  /\ UNCHANGED <<qvars, now, rlvars, rmvars>>

\* time passes unless a timer is due
ControllerTick ==
  /\ now < TCMaxTime
  /\ ~GuardTimerDue
  /\ Tick
  /\ UNCHANGED <<qvars, rlvars, rmvars, apivars>>
  /\ returned' = NoReturn

InitController ==
  /\ QIdle /\ now = 0 /\ RLIdle /\ RMIdle
  /\ ApiInit(DefaultTimeout)
  /\ returned = NoReturn

NextController ==
  \/ ControllerExecute
  \/ ControllerOperationSettles
  \/ ControllerTimeout
  \/ ControllerTimeoutPromise
  \/ ControllerAbort
  \/ ControllerAbortAll
  \/ ControllerTick

\* TimeoutController on its own: calls of executeWithTimeout whose operations
\* settle at any time with any outcome, and calls of abort and abortAll
SpecController == InitController /\ [][NextController]_vars

DrainMaxJobs == 3

PauseMaxJobs == 3

QPause ==
  /\ paused # JsBoolean(TRUE)
  /\ Pause
  /\ UNCHANGED <<now, rlvars, rmvars, apivars>>
  /\ returned' = NoReturn

QResume ==
  /\ paused = JsBoolean(TRUE)
  /\ Resume
  /\ UNCHANGED <<now, rlvars, rmvars, apivars>>
  /\ returned' = NoReturn

PauseEnqueue ==
  /\ Len(requests) < PauseMaxJobs
  /\ \E p \in Priorities : Enqueue(p)
  /\ UNCHANGED <<now, rlvars, rmvars, apivars>>
  /\ returned' = NoReturn

\* resetStats() is called when a job was counted
QResetStats ==
  /\ stats # NoStats
  /\ ResetStats
  /\ UNCHANGED <<now, rlvars, rmvars, apivars>>
  /\ returned' = NoReturn

NextPause ==
  \/ PauseEnqueue
  \/ QResetStats
  \/ QProcessTimer
  \/ QSettle
  \/ QPause
  \/ QResume

\* RequestQueue with pause(), resume() and resetStats()
SpecPause == InitQueue /\ [][NextPause]_vars


DrainEnqueue ==
  /\ Len(requests) < DrainMaxJobs
  /\ \E p \in Priorities : Enqueue(p)
  /\ UNCHANGED <<now, rlvars, rmvars, apivars>>
  /\ returned' = NoReturn

\* request.fn of the running job id settles
DrainSettle(id) ==
  /\ \E k \in SettleKinds : Settle(id, k)
  /\ UNCHANGED <<now, rlvars, rmvars, apivars>>
  /\ returned' = NoReturn

NextDrain ==
  \/ DrainEnqueue
  \/ QProcessTimer
  \/ \E id \in 1..DrainMaxJobs : DrainSettle(id)

\* RequestQueue with no call other than enqueue, whose timers fire and whose
\* invoked operations settle
SpecDrain ==
  /\ InitQueue
  /\ [][NextDrain]_vars
  /\ WF_vars(QProcessTimer)
  /\ \A id \in 1..DrainMaxJobs : WF_vars(DrainSettle(id))

\* ================================================================== claims

RunningIds == {id \in 1..Len(requests) : requests[id].status = "running"}

\* C1: the running counter is the number of jobs whose operation was invoked
\* and has not settled; it never exceeds maxConcurrent and is never negative.
C1_RunningWithinCap ==
  /\ running = Cardinality(RunningIds)
  /\ running <= maxConcurrent
  /\ running >= 0

\* the cap is reached while further jobs wait, after settlements and cancels
C1_Witness ==
  /\ running = maxConcurrent
  /\ queue # <<>>
  /\ stats.completed + stats.failed > 0
  /\ stats.cancelled > 0

\* the jobs whose operation is invoked by the step
DispatchedNow(j) ==
  /\ j \in 1..Len(requests')
  /\ requests'[j].status = "running"
  /\ (j > Len(requests) \/ requests[j].status # "running")

\* C2: the job dispatched by a step has a priority at least as high as every
\* job that is queued at that moment, whatever the arrival order.
C2_HighestPriorityFirst ==
  [][\A j \in 1..MaxJobs + 1 :
       DispatchedNow(j) =>
         \A i \in 1..Len(queue') :
           requests'[j].priority >= queue'[i].priority]_vars

\* a job that arrived later was dispatched before an earlier job of lower
\* priority that was queued the whole time
C2_Witness ==
  \E i \in 1..Len(dispatchLog) :
    \E e \in 1..Len(queue) :
      /\ dispatchLog[i] > queue[e].id
      /\ requests[dispatchLog[i]].priority > queue[e].priority

\* C3: a dispatched job arrived before every queued job of the same priority.
C3_FifoWithinPriority ==
  [][\A j \in 1..MaxJobs + 1 :
       DispatchedNow(j) =>
         \A i \in 1..Len(queue') :
           queue'[i].priority = requests'[j].priority => j < queue'[i].id]_vars

\* job a was dispatched last and before the equal-priority job b that is still
\* queued, and a job c that arrived after b was dispatched before a: a and b
\* were queued together while c was enqueued and dispatched in between
C3_Witness ==
  /\ dispatchLog # <<>>
  /\ LET a == dispatchLog[Len(dispatchLog)]
     IN  \E e \in 1..Len(queue) :
           /\ queue[e].priority = requests[a].priority
           /\ a < queue[e].id
           /\ \E i \in 1..Len(dispatchLog) - 1 :
                /\ dispatchLog[i] > queue[e].id
                /\ requests[dispatchLog[i]].priority # requests[a].priority

\* the scenario of C4: cap 2, the first three jobs have priorities 5, 1, 5
C4_Scenario ==
  /\ maxConcurrent = 2
  /\ Len(requests) >= 3
  /\ requests[1].priority = 5
  /\ requests[2].priority = 1
  /\ requests[3].priority = 5

FirstThreeDispatched == SelectSeq(dispatchLog, LAMBDA id : id <= 3)

\* C4 as stated: the three operations are invoked in the order job0, job2,
\* job1 (ids 1, 3, 2).
C4_OrderAsStated ==
  (C4_Scenario /\ Len(FirstThreeDispatched) = 3)
    => FirstThreeDispatched = <<1, 3, 2>>

\* C4 amended: the three operations are invoked in the order job0, job1, job2
\* (ids 1, 2, 3): job1 takes the free second slot on arrival.
C4_OrderAmended ==
  C4_Scenario =>
    \E n \in 0..3 : FirstThreeDispatched = SubSeq(<<1, 2, 3>>, 1, n)

C4_Witness ==
  /\ C4_Scenario
  /\ FirstThreeDispatched = <<1, 2, 3>>

\* the number of fns the limiter started in the window (t - timeWindow, t]
StartsInWindow(t) ==
  Cardinality({i \in 1..Len(rlStarts) :
                 rlStarts[i].time > t - timeWindow /\ rlStarts[i].time <= t})

\* C5: in every window (t - timeWindow, t] up to the present, RateLimiter
\* started at most maxRequests operations.  A ticket is expired once it is
\* exactly timeWindow old, so a call arriving at that instant is admitted and
\* lies in a different window than the start whose ticket expired.
C5_AtMostMaxPerWindow ==
  \A t \in 0..now : StartsInWindow(t) <= maxRequests

\* a burst filled the window and made a call wait, and an operation was
\* started at the very instant the first ticket of the burst expired
C5_Witness ==
  \E i, j \in 1..Len(rlStarts) :
    /\ StartsInWindow(rlStarts[i].time) = maxRequests
    /\ rlStarts[j].time = rlStarts[i].time + timeWindow
    /\ \E k \in DOMAIN throttled : k < rlStarts[j].id /\ throttled[k] = "waiting"

\* C6: a call in the wait list is started as soon as the oldest ticket has
\* aged out: while a call waits, the window was still full one millisecond
\* ago.
C6_WaiterStartsWhenTicketExpires ==
  rlQueue # <<>> =>
    Cardinality({i \in 1..Len(rlStarts) :
                   rlStarts[i].time > (now - 1) - timeWindow}) >= maxRequests

\* the attempts started for the request id
AttemptsOf(id) == {g \in 1..Len(guards) : guards[g].req = id}

\* what the function that request() gives to throttle settled with for the
\* request id, if it has settled: the result of executeWithRetry, or that of
\* executeFetch(0) for a request made with retry: false
FnResults(id) ==
  IF calls[id].options.retry
  THEN {retryResult[id][i] : i \in 1..Len(retryResult[id])}
  ELSE {guards[g].fetched : g \in AttemptsOf(id)} \ {Pending}

\* a request made through ApiWrapper.request that has not settled
Unsettled(id) == requests[id].status \in {"queued", "running"}

\* something is pending that will run a step of the pipeline: a re-dispatch
\* timer, a backoff timer, an attempt that will settle or time out, or a
\* body that is being read
PipelineActive ==
  \/ pendingProcess > 0
  \/ \E id \in DOMAIN retry : retry[id].pc = "sleep"
  \/ \E g \in 1..Len(guards) : guards[g].race = "pending"
  \/ \E g \in 1..Len(guards) : guards[g].reading

\* C7: every request made through ApiWrapper.request settles: as long as one
\* is unsettled, in the scheduler queue or in the wait list of the rate
\* limiter, a timer or an attempt is pending that will move the pipeline on.
C7_EveryRequestSettles ==
  \A id \in 1..Len(requests) : Unsettled(id) => PipelineActive

\* C8: one call of executeWithRetry invokes fn at most maxRetries + 1 times,
\* for the value of maxRetries given to the constructor, 0 included.
C8_AtMostMaxRetriesPlusOne ==
  \A id \in DOMAIN attemptLog : Len(attemptLog[id]) <= optMaxRetries + 1

\* the status code an error carries, and whether the claim counts it retryable
C9_StatusCode(e) == IF e.status # 0 THEN e.status ELSE e.respStatus
C9_Retryable(e) == ~e.aborted /\ C9_StatusCode(e) \in retryableErrors

\* C9: when an attempt fails, the call goes on to a backoff wait followed by
\* another attempt exactly if the error is not aborted, its status code is
\* retryable and fewer than maxRetries + 1 attempts were made; otherwise it
\* rejects in the same step.  A backoff wait ends with another attempt.
C9_RetryIffRetryable ==
  [][\A id \in DOMAIN retry :
       /\ (retry[id].pc = "attempt" /\ retry'[id].pc # "attempt"
           /\ attemptLog'[id][Len(attemptLog'[id])].outcome # OkValue)
          => LET e == attemptLog'[id][Len(attemptLog'[id])].outcome
             IN  /\ retry'[id].pc \in {"sleep", "rejected"}
                 /\ retry'[id].pc = "sleep" <=>
                      (C9_Retryable(e) /\ Len(attemptLog[id]) < maxRetries + 1)
                 /\ retry'[id].pc = "rejected" =>
                      /\ retryResult'[id] = <<e>>
                      /\ Len(attemptLog'[id]) = Len(attemptLog[id])
       /\ (retry[id].pc = "sleep" /\ retry'[id].pc # "sleep")
          => /\ retry'[id].pc = "attempt"
             /\ Len(attemptLog'[id]) = Len(attemptLog[id]) + 1
       /\ (retry[id].pc = "rejected") => attemptLog'[id] = attemptLog[id]
    ]_vars

\* a call was retried after a retryable error and then rejected at once on an
\* aborted error that carries a retryable status
C9_Witness ==
  \E id \in DOMAIN retry :
    /\ retry[id].pc = "rejected"
    /\ Len(attemptLog[id]) = 2
    /\ Len(attemptLog[id]) < maxRetries + 1
    /\ attemptLog[id][2].outcome.aborted
    /\ attemptLog[id][2].outcome.status \in retryableErrors

\* C10: the promise of executeWithRetry settles at most once, when the call
\* is over; it resolves if the last attempt performed succeeded, and
\* otherwise rejects with the very error thrown by the last attempt
\* performed; every earlier attempt failed.
C10_SettlesOnceWithLastOutcome ==
  \A id \in DOMAIN retry :
    /\ Len(retryResult[id]) <= 1
    /\ Len(retryResult[id]) = 1 <=> retry[id].pc \in {"resolved", "rejected"}
    /\ Len(retryResult[id]) = 1 =>
         LET n == Len(attemptLog[id])
         IN  /\ n >= 1
             /\ retryResult[id][1] = attemptLog[id][n].outcome
             /\ attemptLog[id][n].outcome # Pending
             /\ \A i \in 1..n - 1 :
                  attemptLog[id][i].outcome \notin {OkValue, Pending}

\* a call resolved after failed attempts, or rejected after several attempts
C10_Witness ==
  \E id \in DOMAIN retry :
    /\ Len(attemptLog[id]) >= 3
    /\ retry[id].pc = "rejected"
    /\ attemptLog[id][1].outcome.status # attemptLog[id][3].outcome.status

\* C11: the wait before retry k lasts at least min(initialDelay *
\* backoffMultiplier^k, maxDelay) and at most min(1.3 * initialDelay *
\* backoffMultiplier^k, maxDelay), and attempt k + 1 starts only when the
\* wait is over.
C11_BackoffWithinBounds ==
  [][\A id \in DOMAIN retry :
       /\ (retry[id].pc = "attempt" /\ retry'[id].pc = "sleep")
          => LET k == retry[id].attempt
                 base == initialDelay * Pow(backoffMultiplier, k)
                 wait == retry'[id].wake - now
             IN  /\ wait >= Min(base, maxDelay)
                 /\ 10 * wait <= Min(13 * base, 10 * maxDelay)
       /\ (retry[id].pc = "sleep" /\ retry'[id].pc = "attempt")
          => /\ now >= retry[id].wake
             /\ retry'[id].attempt = retry[id].attempt + 1
    ]_vars

\* the fourth attempt runs: it started when the third wait, cut to maxDelay,
\* was over
C11_Witness ==
  \E id \in DOMAIN retry :
    /\ retry[id].pc = "attempt"
    /\ retry[id].attempt = 3
    /\ initialDelay * Pow(backoffMultiplier, 2) > maxDelay
    /\ now = retry[id].wake

\* C12: once a call of executeWithTimeout has settled, neither the timer of
\* createWithTimeout nor the timer of createTimeoutPromise armed for it is
\* pending.
C12_NoTimerAfterSettle ==
  \A g \in 1..Len(guards) :
    guards[g].race = "settled" => ~guards[g].timer /\ ~guards[g].raceTimer


\* the step settles the call of guard g because its time is up: the timer of
\* createWithTimeout fires while the operation runs, or the timer of
\* createTimeoutPromise settles the race of an operation that goes on
C13_TimesOut(g) ==
  /\ guards[g].race = "pending"
  /\ guards'[g].race = "settled"
  /\ \/ guards'[g].op = "running"
     \/ ~guards[g].aborted /\ guards'[g].aborted /\ ~guards'[g].manual

\* C13: a call whose operation has not settled when its timeout has elapsed
\* rejects at that time, not later, with a TimeoutError that carries the
\* timeout, and its signal has been triggered by then; no call is pending
\* after its timeout.
C13_TimeoutErrorAtDeadline ==
  /\ [](\A g \in 1..Len(guards) :
          guards[g].race = "pending" => now <= guards[g].due)
  /\ [][\A g \in 1..Len(guards) :
          C13_TimesOut(g) =>
            /\ now = guards[g].due
            /\ guards'[g].aborted
            /\ guards'[g].result =
                 [kind |-> "rejection",
                  error |-> [name |-> "TimeoutError", aborted |-> FALSE,
                             status |-> 0, respStatus |-> 0,
                             timeout |-> guards[g].timeout]]
       ]_vars

\* a call timed out although its operation ignores the signal and goes on
C13_Witness ==
  \E g \in 1..Len(guards) :
    /\ guards[g].op = "running"
    /\ guards[g].race = "settled"
    /\ guards[g].aborted /\ ~guards[g].manual
    /\ guards[g].result.kind = "rejection"
    /\ guards[g].result.error.name = "TimeoutError"
    /\ now = guards[g].due


\* C14: a call whose operation settled before the timer fired and without
\* any abort of its guard settles with what the operation settled with: the
\* same value, or the same error with the same name and fields.
C14_OutcomeUnchanged ==
  \A g \in 1..Len(guards) :
    (guards[g].race = "settled" /\ ~guards[g].aborted)
      => guards[g].result = guards[g].settledWith

\* C15: a call whose guard was cancelled by abort or abortAll, and whose
\* operation rejected with the AbortError of the signal, fails with an
\* AbortError and not with a TimeoutError.
C15_ManualAbortIsAbortError ==
  \A g \in 1..Len(guards) :
    (guards[g].manual /\ guards[g].race = "settled"
     /\ guards[g].settledWith = [kind |-> "rejection", error |-> AbortError])
      => /\ guards[g].result.kind = "rejection"
         /\ guards[g].result.error.name = "AbortError"


\* C16: abort(id) on a guard of the active set clears its timer, triggers its
\* signal, removes it from the active set and returns true, and touches no
\* other guard; abort(id) on any other id returns false and changes nothing.
C16_AbortOneGuard ==
  [][returned'.call = "abort" =>
       LET id == returned'.arg
       IN  /\ Len(guards') = Len(guards)
           /\ UNCHANGED <<qvars, now, rlvars, rmvars, defaultTimeout, metrics,
                        calls, batches, events, delivered>>
           /\ IF id \in 1..Len(guards) /\ guards[id].active
              THEN /\ returned'.value = JsBoolean(TRUE)
                   /\ ~guards'[id].timer
                   /\ guards'[id].aborted
                   /\ ~guards'[id].active
                   /\ \A g \in 1..Len(guards) :
                        g # id => guards'[g] = guards[g]
              ELSE /\ returned'.value = JsBoolean(FALSE)
                   /\ guards' = guards
    ]_vars

\* abort returned true while another guard is still active, its timer pending
C16_Witness ==
  /\ returned.call = "abort"
  /\ returned.value = JsBoolean(TRUE)
  /\ guards[returned.arg].aborted
  /\ \E g \in 1..Len(guards) :
       g # returned.arg /\ guards[g].active /\ guards[g].timer

\* C17: abortAll() leaves no guard in the active set and no timer of
\* createWithTimeout pending, every guard that was active has its signal
\* triggered, and the call returns the number of guards it aborted.
C17_AbortAllReturnsCount ==
  returned.call = "abortAll" =>
    /\ \A g \in 1..Len(guards) :
         ~guards[g].active /\ ~guards[g].timer
    /\ returned.arg <= Cardinality({g \in 1..Len(guards) : guards[g].aborted})
    /\ returned.value = JsNumber(returned.arg)


\* the job id is in the queue and queued
C18_Queued(id) ==
  \E i \in 1..Len(queue) : queue[i].id = id /\ requests[id].status = "queued"

\* C18: cancel(id) on a queued job removes it from the queue, rejects its
\* promise with an AbortError, adds one to the cancelled count and returns
\* true; the job stays cancelled, is counted no more and its operation is
\* never invoked.
C18_CancelQueuedJob ==
  /\ [](\A id \in 1..Len(requests) :
          requests[id].status = "cancelled" =>
            /\ requests[id].settled = "AbortError"
            /\ \A i \in 1..Len(dispatchLog) : dispatchLog[i] # id
            /\ \A i \in 1..Len(queue) : queue[i].id # id)
  /\ [][/\ \A id \in 1..Len(requests) :
             requests[id].status = "cancelled" => requests'[id] = requests[id]
        /\ (returned'.call = "cancel" /\ C18_Queued(returned'.arg)) =>
             LET id == returned'.arg
             IN  /\ returned'.value = JsBoolean(TRUE)
                 /\ requests'[id].status = "cancelled"
                 /\ requests'[id].settled = "AbortError"
                 /\ Len(queue') = Len(queue) - 1
                 /\ stats' = [stats EXCEPT !.cancelled = @ + 1]
       ]_vars

\* a queued job was cancelled while another job runs and a third one waits
C18_Witness ==
  /\ returned.call = "cancel"
  /\ returned.value = JsBoolean(TRUE)
  /\ requests[returned.arg].status = "cancelled"
  /\ running > 0
  /\ queue # <<>>

\* C19: cancel(id) for a job that is running, terminal or unknown returns
\* false and changes nothing: the queue, the running counter, the statistics
\* and every job are as before, so a running job goes on to its own outcome.
C19_CancelElseNoEffect ==
  [][(returned'.call = "cancel" /\ ~C18_Queued(returned'.arg)) =>
       /\ returned'.value = JsBoolean(FALSE)
       /\ UNCHANGED <<qvars, now, rlvars, rmvars, apivars>>
    ]_vars

\* cancel returned false for a running job, which is still running
C19_Witness ==
  /\ returned.call = "cancel"
  /\ returned.value = JsBoolean(FALSE)
  /\ returned.arg \in 1..Len(requests)
  /\ requests[returned.arg].status = "running"
  /\ queue # <<>>

\* C20: cancelAll() cancels exactly the jobs queued at call time, each with
\* an AbortError, returns their number and leaves the queue empty; the other
\* jobs and the running counter are as before.
C20_CancelAllQueued ==
  [][returned'.call = "cancelAll" =>
       LET queued == {id \in 1..Len(requests) : C18_Queued(id)}
       IN  /\ returned'.value = JsNumber(Cardinality(queued))
           /\ queue' = <<>>
           /\ Len(requests') = Len(requests)
           /\ \A id \in 1..Len(requests) :
                IF id \in queued
                THEN /\ requests'[id].status = "cancelled"
                     /\ requests'[id].settled = "AbortError"
                ELSE requests'[id] = requests[id]
           /\ stats' = [stats EXCEPT !.cancelled = @ + Cardinality(queued)]
           /\ UNCHANGED <<running, pendingProcess, dispatchLog, maxConcurrent,
                        paused>>
    ]_vars

\* cancelAll cancelled two queued jobs while another job runs
C20_Witness ==
  /\ returned.call = "cancelAll"
  /\ returned.value = JsNumber(2)
  /\ running > 0
  /\ queue = <<>>


\* the call id is in the wait list of the limiter
C21_Waiting(id) == \E i \in 1..Len(rlQueue) : rlQueue[i].id = id

\* C21: clearQueue() rejects every entry waiting at call time with the
\* 'Queue cleared' failure, returns their number and leaves the wait list
\* empty; the tickets, the active count and the admitted calls are as before,
\* and the operation of a cleared entry is never started.
C21_ClearQueueRejectsWaiting ==
  /\ [](\A id \in DOMAIN throttled :
          throttled[id] = "cleared" =>
            /\ ~C21_Waiting(id)
            /\ \A i \in 1..Len(rlStarts) : rlStarts[i].id # id)
  /\ [][/\ \A id \in DOMAIN throttled :
             throttled[id] = "cleared" => throttled'[id] = "cleared"
        /\ returned'.call = "clearQueue" =>
             /\ returned'.value = JsNumber(Len(rlQueue))
             /\ rlQueue' = <<>>
             /\ \A id \in DOMAIN throttled :
                  throttled'[id] =
                    IF C21_Waiting(id) THEN "cleared" ELSE throttled[id]
             /\ UNCHANGED <<activeRequests, requestTimestamps, rlStarts,
                            maxRequests, timeWindow, now>>
       ]_vars

\* clearQueue rejected two waiting entries while an admitted call is active
C21_Witness ==
  /\ returned.call = "clearQueue"
  /\ returned.value = JsNumber(2)
  /\ \E id \in DOMAIN throttled : throttled[id] = "active"
  /\ requestTimestamps # <<>>


\* C29: once cancelAll() has returned, no request made before it starts a
\* further attempt (as the claim says of every request pending at the call,
\* a request waiting in a retry backoff included).
C29_CancelAllStopsRequests ==
  [][returned.call = "ApiWrapper.cancelAll" =>
       \A g \in (Len(guards) + 1)..Len(guards') :
         guards'[g].req > Len(requests)
    ]_vars


\* C22: the promise of ApiWrapper.request, which is the future of enqueue
\* around the promise of throttle around executeWithRetry or executeFetch(0),
\* settles with exactly what that function settled with, and it is settled
\* once the function has settled; an error made by RequestQueue or
\* RateLimiter appears only for a job cancelled in the queue or an entry
\* cleared from the wait list.
C22_OutcomeForwarded ==
  \A id \in 1..Len(requests) :
    /\ requests[id].outcome # Pending =>
         IF requests[id].status = "cancelled"
         THEN requests[id].outcome = RequestCancelled
         ELSE IF throttled[id] = "cleared"
              THEN requests[id].outcome = QueueCleared
              ELSE FnResults(id) = {requests[id].outcome}
    /\ FnResults(id) # {} => requests[id].outcome \in FnResults(id)

\* the same for the functions that do not reject with undefined
C22_ForwardedUnlessUndefined ==
  \A id \in 1..Len(requests) :
    /\ requests[id].outcome # Pending =>
         IF requests[id].status = "cancelled"
         THEN requests[id].outcome = RequestCancelled
         ELSE IF throttled[id] = "cleared"
              THEN requests[id].outcome = QueueCleared
              ELSE FnResults(id) = {requests[id].outcome}
    /\ (FnResults(id) # {} /\ NoError \notin FnResults(id))
         => requests[id].outcome \in FnResults(id)


\* C23: whenever a job is queued and the running counter is below
\* maxConcurrent, a dispatch is pending; and when timers fire and invoked
\* operations settle, every job enqueued becomes completed, failed or
\* cancelled.
C23_QueueDrains ==
  /\ []((queue # <<>> /\ running < maxConcurrent) => pendingProcess > 0)
  /\ \A id \in 1..DrainMaxJobs :
       (id <= Len(requests))
         ~> (/\ id <= Len(requests)
             /\ requests[id].status \in {"completed", "failed", "cancelled"})

\* a job that had to wait is completed, and a job still queued has a free
\* slot and a dispatch timer pending
C23_Witness ==
  /\ queue # <<>>
  /\ running < maxConcurrent
  /\ pendingProcess > 0
  /\ \E i \in 2..Len(dispatchLog) :
       requests[dispatchLog[i]].status = "completed"


\* how often the request id occurs in a log of ids
C24_Count(ids, id) == Cardinality({i \in 1..Len(ids) : ids[i] = id})

\* the ids of the calls whose fn the limiter started, in order
C24_Admitted == [i \in 1..Len(rlStarts) |-> rlStarts[i].id]

\* C24: a request asks for rate admission only after the scheduler
\* dispatched its job, and starts its first attempt only after its ticket
\* was recorded; it is dispatched at most once and takes at most one ticket,
\* however many attempts it makes, and the tickets recorded are those of the
\* admitted requests.
C24_LayerOrder ==
  /\ \A id \in 1..Len(requests) :
       /\ throttled[id] # "none" => C24_Count(dispatchLog, id) = 1
       /\ AttemptsOf(id) # {} => C24_Count(C24_Admitted, id) = 1
       /\ Cardinality(AttemptsOf(id)) > 1 => calls[id].options.retry
       /\ C24_Count(C24_Admitted, id) = 1 => throttled[id] # "none"
       /\ C24_Count(dispatchLog, id) <= 1
       /\ C24_Count(C24_Admitted, id) <= 1
       /\ C24_Count(dispatchLog, id) = 1 <=> requests[id].status # "queued"
  /\ Len(requestTimestamps) <= Len(rlStarts)
  /\ running = Cardinality({id \in 1..Len(requests) :
                              requests[id].status = "running"})

\* a request made two attempts on one slot and one ticket
C24_Witness ==
  \E id \in 1..Len(requests) :
    /\ Len(attemptLog[id]) = 2
    /\ C24_Count(dispatchLog, id) = 1
    /\ C24_Count(C24_Admitted, id) = 1
    /\ Len(rlStarts) = 1


\* the number of requests made whose status is one of those given
C25_Number(statuses) ==
  Cardinality({id \in 1..Len(requests) : requests[id].status \in statuses})

\* the number of calls of request() that settled with a success (ok = TRUE)
\* or with a failure
C25_Settled(ok) ==
  Cardinality({c \in 1..Len(calls) :
                 /\ calls[c].outcome # Pending
                 /\ (calls[c].outcome = OkValue) = ok})

\* the number of calls of request() that have not settled
C25_Unsettled ==
  Cardinality({c \in 1..Len(calls) : calls[c].outcome = Pending})

\* C25: every request that settled was counted once, as successful or as
\* failed: totalRequests is the number of calls of request(),
\* successfulRequests the number of those that resolved, failedRequests the
\* number of those that rejected (cancelled ones included), and
\* totalRequests = successfulRequests + failedRequests + the number of
\* requests not yet settled.
C25_MetricsAddUp ==
  /\ metrics.totalRequests = Len(calls)
  /\ metrics.successfulRequests = C25_Settled(TRUE)
  /\ metrics.failedRequests = C25_Settled(FALSE)
  /\ metrics.totalRequests =
       metrics.successfulRequests + metrics.failedRequests + C25_Unsettled

\* one request succeeded, another one was cancelled in the queue
C25_Witness ==
  /\ metrics.successfulRequests = 1
  /\ metrics.failedRequests = 1
  /\ C25_Number({"cancelled"}) = 1


\* the calls of the list of batch b, as a set
BatchCalls(b) == {batches[b].calls[i] : i \in 1..Len(batches[b].calls)}

\* C26: the promise of ApiWrapper.allSettled is never rejected; it is settled
\* only when every request of the list is settled; its value has one entry
\* per request, in the order of the list, tagged fulfilled with the result of
\* a request that succeeded and rejected with the error of one that failed;
\* the numbers of fulfilled and rejected entries, which batch:complete
\* reports, add up to the length of the list.
C26_AllSettledTagsEach ==
  \A b \in 1..Len(batches) :
    LET B == batches[b]
        v == B.outcome.value
    IN  B.type = "allSettled" =>
          /\ B.outcome = Pending \/ B.outcome.kind = "fulfilled"
          /\ B.outcome # Pending =>
               /\ \A c \in BatchCalls(b) : calls[c].outcome # Pending
               /\ B.unsettled = {}
               /\ Len(v) = Len(B.calls)
               /\ \A i \in 1..Len(v) :
                    /\ v[i].request = B.calls[i]
                    /\ IF calls[B.calls[i]].outcome = OkValue
                       THEN v[i].status = "fulfilled" /\ v[i].value = OkValue
                       ELSE /\ v[i].status = "rejected"
                            /\ v[i].reason = calls[B.calls[i]].outcome
               /\ CountStatus(v, "fulfilled") + CountStatus(v, "rejected")
                    = Len(B.calls)
               /\ B.summary = [total |-> Len(B.calls),
                               successful |-> CountStatus(v, "fulfilled"),
                               failed |-> CountStatus(v, "rejected")]

\* allSettled over three requests, the second of which failed, is fulfilled
\* with 2 fulfilled entries and 1 rejected entry
C26_Witness ==
  \E b \in 1..Len(batches) :
    /\ batches[b].type = "allSettled"
    /\ Len(batches[b].calls) = 3
    /\ batches[b].outcome # Pending
    /\ batches[b].outcome.kind = "fulfilled"
    /\ batches[b].outcome.value[2].status = "rejected"
    /\ batches[b].summary = [total |-> 3, successful |-> 2, failed |-> 1]


\* the number of calls of request() whose promise settled with a success
\* (ok = TRUE) or with a failure
C27_Settled(ok) ==
  Cardinality({c \in 1..Len(calls) :
                 calls[c].outcome # Pending /\ (calls[c].outcome = OkValue) = ok})

C27_State ==
  /\ metrics.successfulRequests = C27_Settled(TRUE)
  /\ metrics.failedRequests = C27_Settled(FALSE)
  /\ \A b \in 1..Len(batches) :
       LET B == batches[b]
           o == B.outcome
       IN  B.type = "all" =>
             /\ o = Pending =>
                  \A c \in BatchCalls(b) : calls[c].outcome \in {Pending, OkValue}
             /\ (o # Pending /\ o.kind = "rejected") =>
                  /\ o.request \in BatchCalls(b)
                  /\ o.reason = calls[o.request].outcome
                  /\ o.reason \notin {Pending, OkValue}
             /\ (o # Pending /\ o.kind = "fulfilled") =>
                  /\ \A c \in BatchCalls(b) : calls[c].outcome = OkValue
                  /\ Len(o.value) = Len(B.calls)
                  /\ \A i \in 1..Len(B.calls) :
                       /\ o.value[i].request = B.calls[i]
                       /\ o.value[i].value = calls[B.calls[i]].outcome

C27_Step ==
  \A b \in 1..Len(batches) :
    (/\ batches[b].type = "all"
     /\ batches[b].outcome = Pending
     /\ batches'[b].outcome # Pending
     /\ batches'[b].outcome.kind = "rejected") =>
       /\ calls[batches'[b].outcome.request].outcome = Pending
       /\ calls'[batches'[b].outcome.request].outcome # Pending

\* C27: the promise of ApiWrapper.all is pending only while no request of
\* the list has failed; it is rejected in the step in which the first request
\* of the list fails, with the error of that request, whatever the state of
\* the others; it is fulfilled only when every request succeeded, with their
\* results in the order of the list; and every request that settles, before
\* or after the rejection, increments one of the two counters once.
C27_AllFailsFast == []C27_State /\ [][C27_Step]_vars

\* all was rejected while a request of its list was pending, and that
\* request went on and succeeded
C27_Witness ==
  \E b \in 1..Len(batches) :
    /\ batches[b].type = "all"
    /\ batches[b].outcome # Pending
    /\ batches[b].outcome.kind = "rejected"
    /\ \E c \in batches[b].unsettled : calls[c].outcome = OkValue
    /\ metrics.successfulRequests >= 1
    /\ metrics.failedRequests >= 1


\* the invocations of callbacks made in the step, for the event e
C28_New(e) ==
  LET IsOf(x) == x.event = e
  IN  SelectSeq(SubSeq(delivered', Len(delivered) + 1, Len(delivered')), IsOf)

RECURSIVE C28_Reached(_, _)
\* in a round of emit over the list cbs the callback at the index j is
\* reached: the first one is, and a later one is unless the callback before
\* it was reached and was a wrapper of once that returned, which removed
\* itself from the list and moved the later one under the index already
\* visited
C28_Reached(cbs, j) ==
  IF j = 1 THEN TRUE
  ELSE ~(C28_Reached(cbs, j - 1) /\ cbs[j - 1].once /\ ~cbs[j - 1].throws)

\* the indices of cbs that satisfy Keep, in order
C28_Indices(cbs, Keep(_)) ==
  SelectSeq([j \in 1..Len(cbs) |-> j], Keep)

\* the callbacks invoked in a round of emit over cbs, in order
C28_Invoked(cbs) ==
  LET Keep(j) == C28_Reached(cbs, j)
      idx == C28_Indices(cbs, Keep)
  IN  [n \in 1..Len(idx) |-> cbs[idx[n]].id]

\* the list after a round of emit over cbs: the wrappers of once that were
\* reached and returned are gone
C28_After(cbs) ==
  LET Keep(j) == ~(C28_Reached(cbs, j) /\ cbs[j].once /\ ~cbs[j].throws)
      idx == C28_Indices(cbs, Keep)
  IN  [n \in 1..Len(idx) |-> cbs[idx[n]]]

RECURSIVE C28_Expected(_, _)
\* k rounds of emit from the list cbs on: the callbacks invoked and the list
\* left
C28_Expected(cbs, k) ==
  IF k = 0 THEN [invoked |-> <<>>, callbacks |-> cbs]
  ELSE LET r == C28_Expected(C28_After(cbs), k - 1)
       IN  [invoked |-> C28_Invoked(cbs) \o r.invoked,
            callbacks |-> r.callbacks]

\* in the step, the event e was delivered in k rounds, each to every
\* callback registered for it that forEach reaches, in the order of
\* registration and whether or not a callback before it threw; only the
\* wrappers of once that returned left the list
C28_Rounds(e, k) ==
  LET x   == C28_Expected(events[e], k)
      new == C28_New(e)
  IN  /\ Len(new) = Len(x.invoked)
      /\ \A i \in 1..Len(new) : new[i].callback = x.invoked[i]
      /\ events'[e] = x.callbacks
      /\ \A j \in 2..Len(events[e]) :
           (k > 0 /\ events[e][j - 1].throws) =>
              \E i \in 1..Len(new) : new[i].callback = events[e][j].id

\* the number of calls of request() that settle in the step, with a success
\* (ok = TRUE) or with a failure
C28_Settling(ok) ==
  Cardinality({c \in 1..Len(calls) :
                 /\ calls[c].outcome = Pending
                 /\ calls'[c].outcome # Pending
                 /\ (calls'[c].outcome = OkValue) = ok})

C28_State ==
  /\ metrics.totalRequests = Len(calls)
  /\ metrics.successfulRequests = C25_Settled(TRUE)
  /\ metrics.failedRequests = C25_Settled(FALSE)
  /\ \A c \in 1..Len(calls) :
       /\ calls[c].job = c
       /\ calls[c].outcome = requests[c].outcome
       /\ (/\ requests[c].status \in {"completed", "failed"}
           /\ NoError \notin FnResults(c))
            => FnResults(c) = {calls[c].outcome}
       /\ calls[c].options.retry =>
            Len(attemptLog[c]) = Cardinality(AttemptsOf(c))
       /\ (~calls[c].options.retry /\ throttled[c] # "none") =>
            Cardinality(AttemptsOf(c)) = 1

\* the step registers a callback
C28_Registers ==
  \E e \in LifecycleEvents :
    /\ Len(events'[e]) = Len(events[e]) + 1
    /\ events' = [events EXCEPT ![e] = Append(@, events'[e][Len(events'[e])])]

C28_Step ==
  IF C28_Registers THEN delivered' = delivered
  ELSE /\ C28_Rounds("request:start", Len(calls') - Len(calls))
       /\ C28_Rounds("request:attempt", Len(guards') - Len(guards))
       /\ C28_Rounds("request:success", C28_Settling(TRUE))
       /\ C28_Rounds("request:error", C28_Settling(FALSE))
       /\ C28_Rounds("metrics:update", C28_Settling(TRUE) + C28_Settling(FALSE))

\* C28: whatever the callbacks registered for the events of a request do,
\* return or throw, the promise of request() settles with what the pipeline
\* produced, every attempt is made, each settlement is counted once in the
\* metrics, and each event emitted is delivered to every callback registered
\* for it that the round reaches, in the order of registration: a callback
\* that follows one that throws is always invoked.
C28_ObserverCannotInterfere == []C28_State /\ [][C28_Step]_vars

\* the first of two callbacks registered for request:success threw, the
\* second one was invoked after it, and the request succeeded and was
\* counted as a success
C28_Witness ==
  /\ Len(events["request:success"]) = 2
  /\ events["request:success"][1].throws
  /\ \E i \in 1..Len(delivered) :
       /\ i < Len(delivered)
       /\ delivered[i] = [event |-> "request:success",
                          callback |-> events["request:success"][1].id]
       /\ delivered[i + 1] = [event |-> "request:success",
                              callback |-> events["request:success"][2].id]
  /\ Len(calls) = 1
  /\ calls[1].outcome = OkValue
  /\ metrics.successfulRequests = 1
  /\ metrics.failedRequests = 0


\* the ids of the entries of the live queue
C30_InQueue == {queue[i].id : i \in 1..Len(queue)}

\* the status changes a job may make
C30_Allowed ==
  {<<"queued", "running">>, <<"running", "completed">>,
   <<"running", "failed">>, <<"queued", "cancelled">>}

C30_State ==
  /\ \A id \in 1..Len(requests) :
       /\ requests[id].status \in
            {"queued", "running", "completed", "failed", "cancelled"}
       /\ id \in C30_InQueue <=> requests[id].status = "queued"
  /\ Cardinality(C30_InQueue) = Len(queue)

C30_Step ==
  \A id \in 1..Len(requests') :
    IF id <= Len(requests)
    THEN \/ requests'[id].status = requests[id].status
         \/ <<requests[id].status, requests'[id].status>> \in C30_Allowed
    ELSE requests'[id].status \in {"queued", "running"}

\* C30: a job has one of five statuses; it is created queued (and may be
\* dispatched by the same enqueue call), and its status changes only from
\* queued to running, from running to completed or failed, or from queued to
\* cancelled, so a terminal status stays; the live queue holds exactly the
\* queued jobs, each once.
C30_StatusLifecycle == []C30_State /\ [][C30_Step]_vars

\* a queued job, alone in the live queue, beside a running job, a completed
\* job and a cancelled job
C30_Witness ==
  /\ \A st \in {"queued", "running", "completed", "cancelled"} :
       \E id \in 1..Len(requests) : requests[id].status = st
  /\ Len(queue) = 1


\* C31: a call whose guard was cancelled, by its timer or by abort or
\* abortAll, fails: when the operation of a cancelled guard settles, the call
\* has already settled, and a settled call of a cancelled guard never holds
\* the value of the operation.
C31_CancelledGuardFails ==
  /\ [](\A g \in 1..Len(guards) :
          (guards[g].aborted /\ guards[g].race = "settled")
            => guards[g].result.kind = "rejection")
  /\ [][\A g \in 1..Len(guards) :
          (guards[g].aborted /\ guards[g].op = "running"
           /\ guards'[g].op = "settled")
            => guards[g].race = "settled"]_vars


\* the guard g reported a timeout and its operation has not settled
C32_TimedOut(g) ==
  /\ guards[g].race = "settled"
  /\ guards[g].result.kind = "rejection"
  /\ guards[g].result.error.name = "TimeoutError"
  /\ guards[g].op = "running"

\* C32: when the operation of an attempt settles after the guard of the
\* attempt reported a timeout, only the operation is marked settled: the
\* calls of request(), the metrics, the queue, the limiter, the retry loops
\* and the batches are as before, and no callback is invoked.
C32_LateSettlementIsNoOp ==
  [][\A g \in 1..Len(guards) :
       (C32_TimedOut(g) /\ guards'[g].op = "settled") =>
          /\ guards' = [guards EXCEPT ![g].op = "settled"]
          /\ UNCHANGED <<qvars, rlvars, rmvars, metrics, calls, batches,
                         events, delivered>>
    ]_vars

\* the operation settled after the timeout promise had rejected the race;
\* the request had failed with the TimeoutError, which an observer of
\* request:error received
C32_Witness ==
  \E g \in 1..Len(guards) :
    /\ guards[g].settledWith =
         [kind |-> "rejection", error |-> TimeoutPromiseError]
    /\ guards[g].result =
         [kind |-> "rejection", error |-> TimeoutErrorOf(defaultTimeout)]
    /\ guards[g].op = "settled"
    /\ calls[guards[g].req].outcome.name = "TimeoutError"
    /\ events["request:error"] # <<>>
    /\ Len(delivered) = Len(events["request:error"])


\* the operations that were invoked and have not settled
C33_InFlight == {g \in 1..Len(guards) : guards[g].op = "running"}

\* C33: through ApiWrapper, at most maxConcurrent operations are invoked and
\* not yet settled, whatever the operations do with their signal.
C33_InFlightWithinCap == Cardinality(C33_InFlight) <= maxConcurrent


\* the number of attempts started in the window (t - timeWindow, t]
C34_AttemptsInWindow(t) ==
  Cardinality({g \in 1..Len(guards) :
                 /\ guards[g].due - guards[g].timeout > t - timeWindow
                 /\ guards[g].due - guards[g].timeout <= t})

\* C34: through ApiWrapper, in every window (t - timeWindow, t] up to the
\* present at most maxRequests attempts were started, first attempts and
\* retries alike.
C34_AttemptsWithinRate ==
  \A t \in 0..now : C34_AttemptsInWindow(t) <= maxRequests


\* the attempt of guard g ended with the TimeoutError of executeWithTimeout
C35_EndedBy(g, manual) ==
  /\ guards[g].race = "settled"
  /\ guards[g].result.kind = "rejection"
  /\ guards[g].result.error.name = "TimeoutError"
  /\ guards[g].manual = manual

\* C35: with 408 among the retryable statuses, an attempt that timed out with
\* attempts left, of a request made with retry enabled, is not the last
\* attempt of its request when the request has settled; an attempt ended by
\* cancelAll is the last attempt of its request.
C35_TimeoutRetriedAbortNot ==
  /\ 408 \in retryableErrors
  /\ \A g \in 1..Len(guards) :
       LET id == guards[g].req
       IN  /\ (/\ C35_EndedBy(g, FALSE)
               /\ calls[id].options.retry
               /\ guards[g].attempt < maxRetries
               /\ calls[id].outcome # Pending)
                 => Cardinality(AttemptsOf(id)) > guards[g].attempt + 1
           /\ C35_EndedBy(g, TRUE)
                 => Cardinality(AttemptsOf(id)) = guards[g].attempt + 1

\* the second half alone: an attempt ended by cancelAll is the last attempt
\* of its request
C35_AbortNotRetried ==
  \A g \in 1..Len(guards) :
    C35_EndedBy(g, TRUE)
      => Cardinality(AttemptsOf(guards[g].req)) = guards[g].attempt + 1


\* the entry i of the wait list comes first among the waiting entries: none
\* has a higher priority, and none of the same priority arrived before it
C36_First(i) ==
  \A j \in 1..Len(rlQueue) :
    \/ rlQueue[j].priority < rlQueue[i].priority
    \/ /\ rlQueue[j].priority = rlQueue[i].priority
       /\ rlQueue[j].id >= rlQueue[i].id

\* C36: the entry that RateLimiter starts from its wait list is the one of
\* highest priority, the earliest arrival among equals; and a call of
\* throttle that is started on arrival while entries are waiting has a
\* higher priority than every one of them.
C36_AdmissionByPriority ==
  [][\A id \in DOMAIN throttled :
       /\ (throttled[id] = "waiting" /\ throttled'[id] = "active") =>
            \E i \in 1..Len(rlQueue) : rlQueue[i].id = id /\ C36_First(i)
       /\ (throttled[id] = "none" /\ throttled'[id] = "active") =>
            \E p \in Priorities :
              /\ RLThrottle(p)
              /\ \A i \in 1..Len(rlQueue) : rlQueue[i].priority < p
    ]_vars


\* C37: from pause() until resume() is called no job is dispatched: a step
\* that starts and ends with the queue paused invokes no fn, be it an
\* enqueue or the process() that follows a settlement.
C37_PausedDispatchesNothing ==
  [][(paused = JsBoolean(TRUE) /\ paused' = JsBoolean(TRUE))
       => dispatchLog' = dispatchLog]_vars


\* C38: the metrics change only in a step in which a call of request()
\* settles.
C38_MetricsChangeAtSettlement ==
  [][metrics' # metrics =>
       \E c \in 1..Len(calls) :
         calls[c].outcome = Pending /\ calls'[c].outcome # Pending]_vars


\* C39: in every state of ApiWrapper, also after resetMetrics() was called
\* while requests were in flight, the successes and the failures together
\* are at most totalRequests.
C39_SettledWithinTotal ==
  metrics.successfulRequests + metrics.failedRequests <= metrics.totalRequests


\* C40: the jobs ever enqueued are the completed, failed and cancelled ones,
\* the queued ones and the running ones; and stats.cancelled is the number of
\* jobs that were cancelled while queued.
C40_StatsAddUp ==
  /\ stats.total = stats.completed + stats.failed + stats.cancelled
                     + Len(queue) + running
  /\ stats.cancelled =
       Cardinality({id \in 1..Len(requests) :
                      requests[id].status = "cancelled"})

\* the first half alone: the counters add up
C40_TotalAddsUp ==
  stats.total = stats.completed + stats.failed + stats.cancelled
                  + Len(queue) + running

====
